---- MODULE Spec2Model ----
(***************************************************************************)
(* State-machine model of the SportMonks ingestion layer:                  *)
(*   src/sportsmonks_database.py   SportMonksDB (schema, upserters,        *)
(*                                 fixture ingestion, watermarks)          *)
(*                                                                         *)
(* Values.  Every column value is an integer: ids are positive integers,   *)
(* text values (names, timestamps, locations) are integer codes, and       *)
(* Python's None / SQL NULL is NULL.  A Python dict is a record (a         *)
(* function on its keys; an absent key is a key outside DOMAIN), a Python  *)
(* list is [list |-> <<...>>], and a scalar standing where a mapping or a  *)
(* sequence is expected is [py_int |-> n].                                 *)
(*                                                                         *)
(* Store.  db is what the open connection sees (committed rows plus the    *)
(* rows of the open implicit transaction), disk is what is committed.      *)
(* A table is a function rowid -> row; a row is a function on the table's  *)
(* columns.                                                                *)
(***************************************************************************)
EXTENDS Integers, Sequences, FiniteSets, TLC

VARIABLES
    db,          \* the connection's view: [rows : table -> (rowid -> row), seq : table -> Nat]
    disk,        \* the committed store, same shape
    prev,        \* db as it was before the last operation
    prevDisk,    \* disk as it was before the last operation
    last,        \* the last operation: [op, arg, err, trace, ret]
    halfWritten, \* writes of failed insert_or_update_fixture calls: {[table, rowid, row]}
    lastSet,     \* entity type -> the timestamps set_last_update_time stored, in order
    built,       \* the database file of build_fixtures.py: [leagues, fixtures : id -> row]
    prevBuilt,   \* built as it was before the last operation
    nOps,        \* number of operations performed
    clock,       \* time.time(), in tenths of a second
    api,         \* the SportMonksAPI object: rate_limit, request_count, request_reset_time
    wire,        \* what left the SportMonksAPI object: requests sent, and how it counted them
    paged,       \* the run of fetch_paginated_data, and the server it talks to
    fetched      \* the run of build_fixtures.fetch_all, and the server it talks to

storeVars == <<db, disk, prev, prevDisk, last, halfWritten, lastSet, built, prevBuilt, nOps>>

clientVars == <<clock, api, wire, paged>>

vars == <<db, disk, prev, prevDisk, last, halfWritten, lastSet, built, prevBuilt, nOps,
          clock, api, wire, paged, fetched>>

-----------------------------------------------------------------------------
(* Python values *)

NULL == -1

EmptyDict == <<>>

PyList(s) == [list |-> s]

PyInt(n) == [py_int |-> n]

IsList(v) == "list" \in DOMAIN v

IsInt(v) == "py_int" \in DOMAIN v

IsDict(v) == ~IsList(v) /\ ~IsInt(v)

\* bool(v) of a container value
Truthy(v) ==
    IF IsList(v) THEN v.list # <<>>
    ELSE IF IsInt(v) THEN v.py_int # 0
    ELSE DOMAIN v # {}

\* d.get(k)
Get(d, k) == IF k \in DOMAIN d THEN d[k] ELSE NULL

\* d.get(k, default)
GetOr(d, k, default) == IF k \in DOMAIN d THEN d[k] ELSE default

\* 'k' in d and d[k]
Has(d, k) == k \in DOMAIN d /\ Truthy(d[k])

\* 1 if x else 0
Flag(x) == IF x # NULL /\ x # 0 THEN 1 ELSE 0

MaxOf(S) == IF S = {} THEN 0 ELSE CHOOSE m \in S : \A x \in S : x <= m

Range(f) == {f[x] : x \in DOMAIN f}

-----------------------------------------------------------------------------
(* The schema of create_tables *)

TableColumns ==
    [ continents |-> {"id", "name", "code"},
      countries |-> {"id", "name", "code", "continent_id"},
      regions |-> {"id", "name", "country_id"},
      cities |-> {"id", "name", "region_id", "country_id"},
      venues |-> {"id", "name", "city_id", "country_id", "capacity", "address",
                  "latitude", "longitude", "surface", "image_path", "city_name",
                  "national_team"},
      states |-> {"id", "state", "name", "short_name", "developer_name"},
      leagues |-> {"id", "name", "country_id", "logo_path", "slug", "type", "active",
                   "sub_type", "last_played_at", "category", "has_jerseys", "sport_id"},
      seasons |-> {"id", "name", "league_id", "start_date", "end_date"},
      stages |-> {"id", "name", "season_id", "type"},
      rounds |-> {"id", "name", "stage_id"},
      teams |-> {"id", "name", "country_id", "venue_id", "short_code", "founded", "type",
                 "placeholder", "gender", "logo_path", "sport_id", "last_played_at"},
      players |-> {"id", "name", "common_name", "country_id", "nationality_id",
                   "position_id", "detailed_position_id", "type_id", "date_of_birth",
                   "height", "weight", "image_path", "firstname", "lastname",
                   "display_name", "gender"},
      team_squad |-> {"team_id", "season_id", "player_id", "jersey_number", "on_loan"},
      fixtures |-> {"id", "sport_id", "league_id", "season_id", "stage_id", "group_id",
                    "aggregate_id", "round_id", "state_id", "venue_id", "name",
                    "starting_at", "result_info", "leg", "details", "length",
                    "placeholder", "has_odds", "starting_at_timestamp"},
      fixture_participants |-> {"fixture_id", "team_id", "location", "winner", "position"},
      scores |-> {"id", "fixture_id", "type_id", "participant_id", "goals", "participant",
                  "description"},
      event_types |-> {"id", "name", "code", "developer_name", "model_type", "stat_group"},
      periods |-> {"id", "fixture_id", "type_id", "started", "ended", "counts_from",
                   "ticking", "sort_order", "description", "time_added", "period_length",
                   "minutes", "seconds", "has_timer"},
      events |-> {"id", "fixture_id", "period_id", "participant_id", "type_id", "section",
                  "player_id", "related_player_id", "player_name", "related_player_name",
                  "result", "info", "addition", "minute", "extra_minute", "injured",
                  "on_bench", "coach_id", "sub_type_id", "detailed_period_id",
                  "sort_order"},
      stat_types |-> {"id", "name", "code", "developer_name", "model_type", "stat_group"},
      fixture_team_stats |-> {"id", "fixture_id", "team_id", "stat_type_id", "value",
                              "location"},
      sideline_types |-> {"id", "name", "code", "developer_name", "model_type",
                          "stat_group"},
      sidelines |-> {"id", "player_id", "type_id", "category", "team_id", "season_id",
                     "start_date", "end_date", "games_missed", "completed"},
      fixture_sidelines |-> {"id", "fixture_id", "sideline_id", "participant_id"},
      weather_reports |-> {"id", "fixture_id", "venue_id", "temperature_day",
                           "temperature_morning", "temperature_evening",
                           "temperature_night", "feels_like_day", "feels_like_morning",
                           "feels_like_evening", "feels_like_night", "wind_speed",
                           "wind_direction", "humidity", "pressure", "clouds",
                           "description", "icon", "type", "metric", "current_temp",
                           "current_wind", "current_clouds", "current_humidity",
                           "current_pressure", "current_direction", "current_feels_like",
                           "current_description"},
      player_stat_detail |-> {"player_id", "season_id", "stat_type_id", "value"},
      fixture_player_stats |-> {"fixture_id", "player_id", "stat_type_id", "value"},
      standings |-> {"id", "season_id", "stage_id", "group_id", "round_id", "team_id",
                     "position", "points", "played", "won", "drawn", "lost", "goals_for",
                     "goals_against", "goal_difference"},
      top_performers |-> {"id", "season_id", "category", "player_id", "team_id", "value",
                          "rank"},
      bookmakers |-> {"id", "name", "logo"},
      markets |-> {"id", "name", "outcome_count"},
      odds |-> {"id", "fixture_id", "bookmaker_id", "market_id", "outcome", "odd_value",
                "last_updated"},
      predictions |-> {"fixture_id", "prob_home", "prob_draw", "prob_away"},
      metadata |-> {"key", "value"} ]

Tables == DOMAIN TableColumns

\* tables whose name column is declared TEXT NOT NULL
NotNullName ==
    {"continents", "countries", "regions", "cities", "venues", "leagues", "seasons",
     "stages", "rounds", "teams", "players", "event_types", "stat_types",
     "sideline_types", "bookmakers", "markets"}

NotNull(table) == IF table \in NotNullName THEN {"name"} ELSE {}

\* PRIMARY KEY (...) of the tables whose key is not an INTEGER PRIMARY KEY
CompositeKey ==
    [ team_squad |-> {"team_id", "season_id", "player_id"},
      fixture_participants |-> {"fixture_id", "team_id"},
      player_stat_detail |-> {"player_id", "season_id", "stat_type_id"},
      fixture_player_stats |-> {"fixture_id", "player_id", "stat_type_id"},
      metadata |-> {"key"} ]

HiddenRowidTables == DOMAIN CompositeKey

\* the INTEGER PRIMARY KEY column, an alias of the rowid
RowidAlias(table) == IF table = "predictions" THEN "fixture_id" ELSE "id"

\* INTEGER PRIMARY KEY AUTOINCREMENT
AutoIncrementTables == {"fixture_team_stats", "standings", "top_performers", "odds"}

EmptyStore ==
    [ rows |-> [t \in Tables |-> <<>>],
      seq |-> [t \in AutoIncrementTables |-> 0] ]

-----------------------------------------------------------------------------
(* SQLite: one INSERT [OR REPLACE | OR IGNORE] statement *)

\* the rowid SQLite picks for a row inserted without one
NextRowid(store, table) ==
    IF table \in AutoIncrementTables
    THEN MaxOf(DOMAIN store.rows[table] \cup {store.seq[table]}) + 1
    ELSE MaxOf(DOMAIN store.rows[table]) + 1

\* a key check that knows the INTEGER PRIMARY KEY only, not the PRIMARY KEY (...) of
\* a table without one
ConflictsOnRowidOnly(store, table, row) ==
    IF table \in HiddenRowidTables THEN {}
    ELSE {r \in DOMAIN store.rows[table] : r = row[RowidAlias(table)]}

\* the rows of the table that hold the same key as row
Conflicts(store, table, row) ==
    LET t == store.rows[table] IN
    IF table \in HiddenRowidTables
    THEN {r \in DOMAIN t : \A c \in CompositeKey[table] :
                              row[c] # NULL /\ t[r][c] = row[c]}
    ELSE {r \in DOMAIN t : r = row[RowidAlias(table)]}

\* store with the rows rs of table deleted
DeleteRows(store, table, rs) ==
    [store EXCEPT !.rows[table] =
        [r \in (DOMAIN store.rows[table]) \ rs |-> store.rows[table][r]]]

\* the rowid under which row is stored: the one it names, or a fresh one
RowidOf(store, table, row) ==
    IF table \in HiddenRowidTables \/ row[RowidAlias(table)] = NULL
    THEN NextRowid(store, table)
    ELSE row[RowidAlias(table)]

\* row as stored: its INTEGER PRIMARY KEY column holds the rowid
Stored(store, table, row) ==
    IF table \in HiddenRowidTables THEN row
    ELSE [row EXCEPT ![RowidAlias(table)] = RowidOf(store, table, row)]

\* store with row stored in table
PutRow(store, table, row) ==
    LET rid == RowidOf(store, table, row)
        t == store.rows[table]
        s1 == [store EXCEPT !.rows[table] =
                  [r \in (DOMAIN t) \cup {rid} |->
                      IF r = rid THEN Stored(store, table, row) ELSE t[r]]]
    IN  IF table \in AutoIncrementTables
        THEN [s1 EXCEPT !.seq[table] = MaxOf({store.seq[table], rid})]
        ELSE s1

Raise(c, kind) == [c EXCEPT !.err = kind]

\* one entry of the trace of executed statements: effect is "inserted", "replaced"
\* or "ignored" (INSERT OR IGNORE that stored nothing; rowid 0)
Wrote(table, verb, rowid, row, effect) ==
    [table |-> table, verb |-> verb, rowid |-> rowid, row |-> row, effect |-> effect]

\* INSERT OR REPLACE that leaves a row already stored under the key as it is
ReplaceKeepingOld(store, table, row) ==
    IF Conflicts(store, table, row) # {} THEN store ELSE PutRow(store, table, row)

\* INSERT OR REPLACE that merges: a column the statement leaves NULL keeps the value
\* of the row it replaces
ReplaceMerging(store, table, row) ==
    LET clash == Conflicts(store, table, row)
        old == store.rows[table][CHOOSE r \in clash : TRUE]
        merged == IF clash = {} THEN row
                  ELSE [col \in DOMAIN row |-> IF row[col] = NULL THEN old[col] ELSE row[col]]
    IN  PutRow(DeleteRows(store, table, clash), table, merged)

\* INSERT OR REPLACE: the rows holding the same key are deleted, then row is stored
Replace(store, table, row) ==
    PutRow(DeleteRows(store, table, Conflicts(store, table, row)), table, row)

\* self.execute("INSERT <verb> INTO table (DOMAIN vals) VALUES (...)", vals)
\* verb is "REPLACE" (INSERT OR REPLACE), "IGNORE" (INSERT OR IGNORE) or "INSERT"
Execute(c, table, verb, vals) ==
    IF c.err # "none" THEN c
    ELSE IF ~(DOMAIN vals \subseteq TableColumns[table]) THEN Raise(c, "OperationalError")
    ELSE
      LET row == [col \in TableColumns[table] |->
                    IF col \in DOMAIN vals THEN vals[col] ELSE NULL]
          nullName == \E col \in NotNull(table) : row[col] = NULL
          clash == Conflicts(c.db, table, row)
          cleared == DeleteRows(c.db, table, clash)
      IN  IF nullName
          THEN IF verb = "IGNORE"
               THEN [c EXCEPT !.trace = Append(@, Wrote(table, verb, 0, row, "ignored"))]
               ELSE Raise(c, "IntegrityError")
          ELSE IF clash # {} /\ verb = "IGNORE"
          THEN [c EXCEPT !.trace = Append(@, Wrote(table, verb, 0, row, "ignored"))]
          ELSE IF clash # {} /\ verb = "INSERT"
          THEN Raise(c, "IntegrityError")
          ELSE [c EXCEPT
                  !.db = Replace(c.db, table, row),
                  !.trace = Append(@, Wrote(table, verb, RowidOf(cleared, table, row),
                                            Stored(cleared, table, row),
                                            IF clash # {} THEN "replaced" ELSE "inserted"))]

\* the state of a handler as it runs: the store, the statements executed, the exception
Begin(store) == [db |-> store, trace |-> <<>>, err |-> "none"]

-----------------------------------------------------------------------------
(* insert_or_update_fixture: the parameter tuples of its INSERT statements *)

FixtureRow(fixture_data) ==
    [ id |-> Get(fixture_data, "id"),
      sport_id |-> Get(fixture_data, "sport_id"),
      league_id |-> Get(fixture_data, "league_id"),
      season_id |-> Get(fixture_data, "season_id"),
      stage_id |-> Get(fixture_data, "stage_id"),
      group_id |-> Get(fixture_data, "group_id"),
      aggregate_id |-> Get(fixture_data, "aggregate_id"),
      round_id |-> Get(fixture_data, "round_id"),
      state_id |-> Get(fixture_data, "state_id"),
      venue_id |-> Get(fixture_data, "venue_id"),
      name |-> Get(fixture_data, "name"),
      starting_at |-> Get(fixture_data, "starting_at"),
      result_info |-> Get(fixture_data, "result_info"),
      leg |-> Get(fixture_data, "leg"),
      details |-> Get(fixture_data, "details"),
      length |-> Get(fixture_data, "length"),
      placeholder |-> Flag(Get(fixture_data, "placeholder")),
      has_odds |-> Flag(Get(fixture_data, "has_odds")),
      starting_at_timestamp |-> Get(fixture_data, "starting_at_timestamp") ]

LeagueRow(league) ==
    [ id |-> Get(league, "id"),
      sport_id |-> Get(league, "sport_id"),
      country_id |-> Get(league, "country_id"),
      name |-> Get(league, "name"),
      active |-> Flag(Get(league, "active")),
      short_code |-> Get(league, "short_code"),
      image_path |-> Get(league, "image_path"),
      type |-> Get(league, "type"),
      sub_type |-> Get(league, "sub_type"),
      last_played_at |-> Get(league, "last_played_at"),
      category |-> Get(league, "category"),
      has_jerseys |-> Flag(Get(league, "has_jerseys")) ]

VenueRow(venue) ==
    [ id |-> Get(venue, "id"),
      country_id |-> Get(venue, "country_id"),
      city_id |-> Get(venue, "city_id"),
      name |-> Get(venue, "name"),
      address |-> Get(venue, "address"),
      zipcode |-> Get(venue, "zipcode"),
      latitude |-> Get(venue, "latitude"),
      longitude |-> Get(venue, "longitude"),
      capacity |-> Get(venue, "capacity"),
      image_path |-> Get(venue, "image_path"),
      city_name |-> Get(venue, "city_name"),
      surface |-> Get(venue, "surface"),
      national_team |-> Flag(Get(venue, "national_team")) ]

StateRow(state) ==
    [ id |-> Get(state, "id"),
      state |-> Get(state, "state"),
      name |-> Get(state, "name"),
      short_name |-> Get(state, "short_name"),
      developer_name |-> Get(state, "developer_name") ]

ParticipantTeamRow(participant) ==
    [ id |-> Get(participant, "id"),
      sport_id |-> Get(participant, "sport_id"),
      country_id |-> Get(participant, "country_id"),
      venue_id |-> Get(participant, "venue_id"),
      gender |-> Get(participant, "gender"),
      name |-> Get(participant, "name"),
      short_code |-> Get(participant, "short_code"),
      image_path |-> Get(participant, "image_path"),
      founded |-> Get(participant, "founded"),
      type |-> Get(participant, "type"),
      placeholder |-> Flag(Get(participant, "placeholder")),
      last_played_at |-> Get(participant, "last_played_at") ]

FixtureParticipantRow(fixture_data, participant) ==
    LET meta == GetOr(participant, "meta", EmptyDict) IN
    [ fixture_id |-> Get(fixture_data, "id"),
      team_id |-> Get(participant, "id"),
      location |-> Get(meta, "location"),
      winner |-> Flag(Get(meta, "winner")),
      position |-> Get(meta, "position") ]

ScoreRow(score) ==
    LET score_data == GetOr(score, "score", EmptyDict) IN
    [ id |-> Get(score, "id"),
      fixture_id |-> Get(score, "fixture_id"),
      type_id |-> Get(score, "type_id"),
      participant_id |-> Get(score, "participant_id"),
      goals |-> Get(score_data, "goals"),
      participant |-> Get(score_data, "participant"),
      description |-> Get(score, "description") ]

\* event_types, stat_types and sideline_types take the same six fields
TypeRow(type) ==
    [ id |-> Get(type, "id"),
      name |-> Get(type, "name"),
      code |-> Get(type, "code"),
      developer_name |-> Get(type, "developer_name"),
      model_type |-> Get(type, "model_type"),
      stat_group |-> Get(type, "stat_group") ]

PeriodRow(period) ==
    [ id |-> Get(period, "id"),
      fixture_id |-> Get(period, "fixture_id"),
      type_id |-> Get(period, "type_id"),
      started |-> Get(period, "started"),
      ended |-> Get(period, "ended"),
      counts_from |-> Get(period, "counts_from"),
      ticking |-> Flag(Get(period, "ticking")),
      sort_order |-> Get(period, "sort_order"),
      description |-> Get(period, "description"),
      time_added |-> Get(period, "time_added"),
      period_length |-> Get(period, "period_length"),
      minutes |-> Get(period, "minutes"),
      seconds |-> Get(period, "seconds"),
      has_timer |-> Flag(Get(period, "has_timer")) ]

\* the players INSERT of the events and of the sidelined branch
EmbeddedPlayerRow(player) ==
    [ id |-> Get(player, "id"),
      sport_id |-> Get(player, "sport_id"),
      country_id |-> Get(player, "country_id"),
      nationality_id |-> Get(player, "nationality_id"),
      city_id |-> Get(player, "city_id"),
      position_id |-> Get(player, "position_id"),
      detailed_position_id |-> Get(player, "detailed_position_id"),
      type_id |-> Get(player, "type_id"),
      common_name |-> Get(player, "common_name"),
      firstname |-> Get(player, "firstname"),
      lastname |-> Get(player, "lastname"),
      name |-> Get(player, "name"),
      display_name |-> Get(player, "display_name"),
      image_path |-> Get(player, "image_path"),
      height |-> Get(player, "height"),
      weight |-> Get(player, "weight"),
      date_of_birth |-> Get(player, "date_of_birth"),
      gender |-> Get(player, "gender") ]

EventRow(event) ==
    [ id |-> Get(event, "id"),
      fixture_id |-> Get(event, "fixture_id"),
      period_id |-> Get(event, "period_id"),
      participant_id |-> Get(event, "participant_id"),
      type_id |-> Get(event, "type_id"),
      section |-> Get(event, "section"),
      player_id |-> Get(event, "player_id"),
      related_player_id |-> Get(event, "related_player_id"),
      player_name |-> Get(event, "player_name"),
      related_player_name |-> Get(event, "related_player_name"),
      result |-> Get(event, "result"),
      info |-> Get(event, "info"),
      addition |-> Get(event, "addition"),
      minute |-> Get(event, "minute"),
      extra_minute |-> Get(event, "extra_minute"),
      injured |-> Flag(Get(event, "injured")),
      on_bench |-> Flag(Get(event, "on_bench")),
      coach_id |-> Get(event, "coach_id"),
      sub_type_id |-> Get(event, "sub_type_id"),
      detailed_period_id |-> Get(event, "detailed_period_id"),
      sort_order |-> Get(event, "sort_order") ]

TeamStatRow(stat) ==
    [ id |-> Get(stat, "id"),
      fixture_id |-> Get(stat, "fixture_id"),
      team_id |-> Get(stat, "participant_id"),
      stat_type_id |-> Get(stat, "type_id"),
      value |-> Get(GetOr(stat, "data", EmptyDict), "value"),
      location |-> Get(stat, "location") ]

FixtureSidelineRow(sidelined) ==
    [ id |-> Get(sidelined, "id"),
      fixture_id |-> Get(sidelined, "fixture_id"),
      sideline_id |-> Get(sidelined, "sideline_id"),
      participant_id |-> Get(sidelined, "participant_id") ]

SidelineRow(sideline) ==
    [ id |-> Get(sideline, "id"),
      player_id |-> Get(sideline, "player_id"),
      type_id |-> Get(sideline, "type_id"),
      category |-> Get(sideline, "category"),
      team_id |-> Get(sideline, "team_id"),
      season_id |-> Get(sideline, "season_id"),
      start_date |-> Get(sideline, "start_date"),
      end_date |-> Get(sideline, "end_date"),
      games_missed |-> Get(sideline, "games_missed"),
      completed |-> Flag(Get(sideline, "completed")) ]

WeatherRow(weather) ==
    LET temperature == GetOr(weather, "temperature", EmptyDict)
        feels_like == GetOr(weather, "feels_like", EmptyDict)
        wind == GetOr(weather, "wind", EmptyDict)
        current == GetOr(weather, "current", EmptyDict)
    IN
    [ id |-> Get(weather, "id"),
      fixture_id |-> Get(weather, "fixture_id"),
      venue_id |-> Get(weather, "venue_id"),
      temperature_day |-> Get(temperature, "day"),
      temperature_morning |-> Get(temperature, "morning"),
      temperature_evening |-> Get(temperature, "evening"),
      temperature_night |-> Get(temperature, "night"),
      feels_like_day |-> Get(feels_like, "day"),
      feels_like_morning |-> Get(feels_like, "morning"),
      feels_like_evening |-> Get(feels_like, "evening"),
      feels_like_night |-> Get(feels_like, "night"),
      wind_speed |-> Get(wind, "speed"),
      wind_direction |-> Get(wind, "direction"),
      humidity |-> Get(weather, "humidity"),
      pressure |-> Get(weather, "pressure"),
      clouds |-> Get(weather, "clouds"),
      description |-> Get(weather, "description"),
      icon |-> Get(weather, "icon"),
      type |-> Get(weather, "type"),
      metric |-> Get(weather, "metric"),
      current_temp |-> Get(current, "temp"),
      current_wind |-> Get(current, "wind"),
      current_clouds |-> Get(current, "clouds"),
      current_humidity |-> Get(current, "humidity"),
      current_pressure |-> Get(current, "pressure"),
      current_direction |-> Get(current, "direction"),
      current_feels_like |-> Get(current, "feels_like"),
      current_description |-> Get(current, "description") ]

-----------------------------------------------------------------------------
(* insert_or_update_fixture: control flow *)

\* for item in value: Body(item).  Iterating a number raises TypeError; iterating a
\* mapping yields its keys (strings), on which the body's .get raises AttributeError;
\* elemErr is what the body raises on an item that is no mapping.
Loop(c, value, elemErr, Body(_, _)) ==
    IF c.err # "none" THEN c
    ELSE IF IsInt(value) THEN Raise(c, "TypeError")
    ELSE IF IsDict(value) THEN Raise(c, "AttributeError")
    ELSE
      LET items == value.list
          run[i \in 0..Len(items)] ==
              IF i = 0 THEN c
              ELSE IF run[i - 1].err # "none" THEN run[i - 1]
              ELSE IF ~IsDict(items[i]) THEN Raise(run[i - 1], elemErr)
              ELSE Body(run[i - 1], items[i])
      IN  run[Len(items)]

\* if 'k' in d and d[k]: Then(d[k])
IfHas(c, d, k, Then(_, _)) == IF c.err = "none" /\ Has(d, k) THEN Then(c, d[k]) ELSE c

LeagueStep(c, league) == Execute(c, "leagues", "REPLACE", LeagueRow(league))

VenueStep(c, venue) == Execute(c, "venues", "REPLACE", VenueRow(venue))

StateStep(c, state) == Execute(c, "states", "REPLACE", StateRow(state))

ParticipantsStep(c, fixture_data) ==
    LET Body(c1, participant) ==
            Execute(Execute(c1, "teams", "REPLACE", ParticipantTeamRow(participant)),
                    "fixture_participants", "REPLACE",
                    FixtureParticipantRow(fixture_data, participant))
        Then(c0, participants) == Loop(c0, participants, "AttributeError", Body)
    IN  IfHas(c, fixture_data, "participants", Then)

ScoresStep(c, fixture_data) ==
    LET Body(c1, score) == Execute(c1, "scores", "REPLACE", ScoreRow(score))
        Then(c0, scores) == Loop(c0, scores, "AttributeError", Body)
    IN  IfHas(c, fixture_data, "scores", Then)

EventTypeStep(c, event_type) == Execute(c, "event_types", "REPLACE", TypeRow(event_type))

PeriodStep(c, period) == Execute(c, "periods", "REPLACE", PeriodRow(period))

PlayerStep(c, player) == Execute(c, "players", "REPLACE", EmbeddedPlayerRow(player))

EventsStep(c, fixture_data) ==
    LET Body(c1, event) ==
            Execute(IfHas(IfHas(IfHas(c1, event, "type", EventTypeStep),
                                event, "period", PeriodStep),
                          event, "player", PlayerStep),
                    "events", "REPLACE", EventRow(event))
        Then(c0, events) == Loop(c0, events, "TypeError", Body)
    IN  IfHas(c, fixture_data, "events", Then)

StatTypeStep(c, stat_type) == Execute(c, "stat_types", "REPLACE", TypeRow(stat_type))

StatisticsStep(c, fixture_data) ==
    LET Body(c1, stat) ==
            Execute(IfHas(c1, stat, "type", StatTypeStep),
                    "fixture_team_stats", "REPLACE", TeamStatRow(stat))
        Then(c0, statistics) == Loop(c0, statistics, "TypeError", Body)
    IN  IfHas(c, fixture_data, "statistics", Then)

SidelineTypeStep(c, sideline_type) ==
    Execute(c, "sideline_types", "REPLACE", TypeRow(sideline_type))

SidelineStep(c, sideline) ==
    Execute(IfHas(IfHas(c, sideline, "type", SidelineTypeStep),
                  sideline, "player", PlayerStep),
            "sidelines", "REPLACE", SidelineRow(sideline))

SidelinedStep(c, fixture_data) ==
    LET Body(c1, sidelined) ==
            IfHas(Execute(c1, "fixture_sidelines", "REPLACE", FixtureSidelineRow(sidelined)),
                  sidelined, "sideline", SidelineStep)
        Then(c0, sidelined_list) == Loop(c0, sidelined_list, "AttributeError", Body)
    IN  IfHas(c, fixture_data, "sidelined", Then)

WeatherStep(c, weather) == Execute(c, "weather_reports", "REPLACE", WeatherRow(weather))

\* insert_or_update_fixture with the fixtures row written after the rows it references
FixtureStatementsReferencesFirst(store, fixture_data) ==
    LET c2 == IfHas(Begin(store), fixture_data, "league", LeagueStep)
        c3 == IfHas(c2, fixture_data, "venue", VenueStep)
        c4 == IfHas(c3, fixture_data, "state", StateStep)
        c1 == Execute(c4, "fixtures", "REPLACE", FixtureRow(fixture_data))
        c5 == ParticipantsStep(c1, fixture_data)
        c6 == ScoresStep(c5, fixture_data)
        c7 == EventsStep(c6, fixture_data)
        c8 == StatisticsStep(c7, fixture_data)
        c9 == SidelinedStep(c8, fixture_data)
    IN  IfHas(c9, fixture_data, "weatherreport", WeatherStep)

\* the statements of insert_or_update_fixture, up to (not including) its commit
FixtureStatements(store, fixture_data) ==
    LET c1 == Execute(Begin(store), "fixtures", "REPLACE", FixtureRow(fixture_data))
        c2 == IfHas(c1, fixture_data, "league", LeagueStep)
        c3 == IfHas(c2, fixture_data, "venue", VenueStep)
        c4 == IfHas(c3, fixture_data, "state", StateStep)
        c5 == ParticipantsStep(c4, fixture_data)
        c6 == ScoresStep(c5, fixture_data)
        c7 == EventsStep(c6, fixture_data)
        c8 == StatisticsStep(c7, fixture_data)
        c9 == SidelinedStep(c8, fixture_data)
    IN  IfHas(c9, fixture_data, "weatherreport", WeatherStep)

\* self.commit(): reached only when no statement raised
CommitOf(c, committed) == IF c.err = "none" THEN c.db ELSE committed

-----------------------------------------------------------------------------
(* Inputs *)

MaxOps == 2

MaxCalls == 3

EntityTypes == {1, 2}

Timestamps == {1, 2, 3}

FixtureIds == {1, 2}

Goals == {1, 2}

\* a well-formed score record of fixture f carrying goals g
Score(f, g) ==
    [id |-> 1, fixture_id |-> f, type_id |-> 1, participant_id |-> 1,
     score |-> [goals |-> g, participant |-> 1]]

Event(f) == [id |-> 1, fixture_id |-> f, type_id |-> 1, period_id |-> 1, player_id |-> 1]

Statistic(f) ==
    [id |-> 1, fixture_id |-> f, type_id |-> 1, participant_id |-> 1,
     data |-> [value |-> 1]]

Named == [id |-> 1, name |-> 1]

Sideline == [id |-> 1, player_id |-> 1, type_id |-> 1]

Sidelined(f) == [id |-> 1, fixture_id |-> f, sideline_id |-> 1, participant_id |-> 1]

Weather(f) == [id |-> 1, fixture_id |-> f, temperature |-> [day |-> 1]]

Without(d, k) == [x \in (DOMAIN d) \ {k} |-> d[x]]

\* the optional sub-mappings a fixture payload of fixture f may carry, one record
\* per payload shape
PayloadOptions(f) ==
    LET rich == [state |-> Named,
                 scores |-> PyList(<<Score(f, 1)>>),
                 events |-> PyList(<<Event(f) @@ [type |-> Named, period |-> [id |-> 1]]>>),
                 statistics |-> PyList(<<Statistic(f) @@ [type |-> Named]>>),
                 sidelined |-> PyList(<<Sidelined(f) @@
                                  [sideline |-> Sideline @@ [type |-> Named]]>>),
                 weatherreport |-> Weather(f)]
    IN
    { EmptyDict,
      [league |-> Named],
      [venue |-> Named],
      [state |-> Named],
      [state |-> EmptyDict, scores |-> PyList(<<>>)],
      [participants |-> PyList(<<Named @@ [meta |-> [location |-> 1]]>>)],
      [scores |-> PyList(<<Score(f, 2)>>)],
      [scores |-> PyList(<<Without(Score(f, 1), "id")>>)],
      [scores |-> PyInt(5), weatherreport |-> Weather(f)],
      [scores |-> PyInt(0), weatherreport |-> Weather(f)],
      [events |-> PyList(<<Event(f)>>)],
      [events |-> PyList(<<Event(f) @@ [type |-> [id |-> 1]]>>)],
      [events |-> PyList(<<Event(f) @@ [player |-> Named]>>)],
      [statistics |-> PyList(<<Without(Statistic(f), "id")>>)],
      [scores |-> PyList(<<Score(f, 1)>>), statistics |-> PyList(<<PyInt(5)>>),
       weatherreport |-> Weather(f)],
      [sidelined |-> PyList(<<Sidelined(f)>>)],
      [sidelined |-> PyList(<<Sidelined(f) @@
                       [sideline |-> Sideline @@ [player |-> Named]]>>)],
      [weatherreport |-> Without(Weather(f), "id")],
      [weatherreport |-> [Weather(f) EXCEPT !.id = 2]],
      rich }
    \cup {Without(rich, k) : k \in DOMAIN rich}

\* fixture payloads: with an id, and (of fixture 1's shapes) without one
Payloads ==
    UNION {{[id |-> f] @@ o : o \in PayloadOptions(f)} : f \in FixtureIds}
    \cup PayloadOptions(1)

-----------------------------------------------------------------------------
(* The dedicated upserters *)

\* d['k'] for every k of keys: KeyError when one is absent
Need(c, d, keys) ==
    IF c.err # "none" \/ keys \subseteq DOMAIN d THEN c ELSE Raise(c, "KeyError")

\* x or y
Or(x, y) == IF x # NULL /\ x # 0 THEN x ELSE y

\* self.execute("DELETE FROM table WHERE col = ?", (value,))
\* a DELETE that removes nothing
ExecuteDeleteNothing(c, table, col, value) ==
    IF c.err # "none" THEN c
    ELSE [c EXCEPT !.trace = Append(@, Wrote(table, "DELETE", 0,
                                             [x \in {col} |-> value], "ignored"))]

\* a DELETE without its WHERE clause
ExecuteDeleteAll(c, table, col, value) ==
    IF c.err # "none" THEN c
    ELSE [c EXCEPT !.db = DeleteRows(c.db, table, DOMAIN c.db.rows[table]),
                   !.trace = Append(@, Wrote(table, "DELETE", 0,
                                             [x \in {col} |-> value], "ignored"))]

ExecuteDelete(c, table, col, value) ==
    IF c.err # "none" THEN c
    ELSE LET t == c.db.rows[table]
             gone == {r \in DOMAIN t : value # NULL /\ t[r][col] = value}
         IN  [c EXCEPT !.db = DeleteRows(c.db, table, gone),
                       !.trace = Append(@, Wrote(table, "DELETE", 0,
                                                 [x \in {col} |-> value], "ignored"))]

ContinentRow(continent) ==
    [id |-> Get(continent, "id"), name |-> Get(continent, "name"),
     code |-> Get(continent, "code")]

ContinentsStatements(store, continents) ==
    LET Body(c, continent) ==
            Execute(Need(c, continent, {"id", "name"}),
                    "continents", "REPLACE", ContinentRow(continent))
    IN  Loop(Begin(store), continents, "TypeError", Body)

CityRow(city) ==
    [id |-> Get(city, "id"), name |-> Get(city, "name"),
     region_id |-> Get(city, "region_id"), country_id |-> Get(city, "country_id")]

CitiesStatements(store, cities) ==
    LET Body(c, city) ==
            Execute(Need(c, city, {"id", "name"}), "cities", "REPLACE", CityRow(city))
    IN  Loop(Begin(store), cities, "TypeError", Body)

StatesStatements(store, states) ==
    LET Body(c, s) == Execute(c, "states", "REPLACE", StateRow(s))
    IN  Loop(Begin(store), states, "AttributeError", Body)

UpserterVenueRow(venue) ==
    [id |-> Get(venue, "id"),
     name |-> Get(venue, "name"),
     city_id |-> Or(Get(venue, "city_id"),
                    IF Has(venue, "city") THEN Get(venue.city, "id") ELSE NULL),
     country_id |-> Get(venue, "country_id"),
     capacity |-> Get(venue, "capacity"),
     address |-> Get(venue, "address"),
     latitude |-> Get(venue, "latitude"),
     longitude |-> Get(venue, "longitude")]

VenuesStatements(store, venues) ==
    LET CityStub(c, city) ==
            Execute(Need(c, city, {"id", "name"}), "cities", "IGNORE", CityRow(city))
        Body(c, venue) ==
            Execute(Need(IfHas(c, venue, "city", CityStub), venue, {"id", "name"}),
                    "venues", "REPLACE", UpserterVenueRow(venue))
    IN  Loop(Begin(store), venues, "TypeError", Body)

UpserterTeamRow(team) ==
    [id |-> Get(team, "id"),
     name |-> Get(team, "name"),
     country_id |-> Get(team, "country_id"),
     venue_id |-> Get(team, "venue_id"),
     short_code |-> Get(team, "short_code"),
     founded |-> Get(team, "founded"),
     type |-> Get(team, "type"),
     placeholder |-> GetOr(team, "placeholder", 0),
     gender |-> Get(team, "gender"),
     logo_path |-> Get(team, "logo_path")]

TeamsStatements(store, teams) ==
    LET Body(c, team) ==
            Execute(Need(c, team, {"id", "name"}), "teams", "REPLACE",
                    UpserterTeamRow(team))
    IN  Loop(Begin(store), teams, "TypeError", Body)

\* the players INSERT of insert_or_update_players and insert_or_update_team_squad
UpserterPlayerRow(player) ==
    [id |-> Get(player, "id"),
     name |-> Get(player, "name"),
     common_name |-> Get(player, "common_name"),
     country_id |-> Get(player, "country_id"),
     position_id |-> Get(player, "position_id"),
     date_of_birth |-> Get(player, "date_of_birth"),
     height |-> Get(player, "height"),
     weight |-> Get(player, "weight"),
     image_path |-> Get(player, "image_path")]

PlayersStatements(store, players) ==
    LET Body(c, player) ==
            Execute(Need(c, player, {"id", "name"}), "players", "REPLACE",
                    UpserterPlayerRow(player))
    IN  Loop(Begin(store), players, "TypeError", Body)

TeamSquadRow(team_id, season_id, item) ==
    [team_id |-> team_id,
     season_id |-> season_id,
     player_id |-> Get(GetOr(item, "player", EmptyDict), "id"),
     jersey_number |-> Get(item, "jersey_number"),
     on_loan |-> GetOr(item, "on_loan", 0)]

PlayerStatRow(player, season_id, stat) ==
    [player_id |-> Get(player, "id"),
     season_id |-> season_id,
     stat_type_id |-> Get(GetOr(stat, "type", EmptyDict), "id"),
     value |-> GetOr(stat, "value", 0)]

SquadStatTypeRow(type) ==
    [id |-> Get(type, "id"), name |-> Get(type, "name"), code |-> Get(type, "code")]

TeamSquadStatements(store, team_id, season_id, squad_data) ==
    LET StatBody(player, c, stat) ==
            Execute(Execute(Need(Need(c, stat, {"type"}),
                                 GetOr(stat, "type", EmptyDict), {"id", "name"}),
                            "stat_types", "IGNORE",
                            SquadStatTypeRow(GetOr(stat, "type", EmptyDict))),
                    "player_stat_detail", "REPLACE",
                    PlayerStatRow(player, season_id, stat))
        Stats(c, player) ==
            LET Body(c1, stat) == StatBody(player, c1, stat) IN
            IF "statistics" \in DOMAIN player
            THEN Loop(c, player.statistics, "TypeError", Body)
            ELSE c
        Body(c, item) ==
            IF Has(item, "player")
            THEN Stats(Execute(Execute(Need(c, item.player, {"id", "name"}),
                                       "players", "IGNORE", UpserterPlayerRow(item.player)),
                               "team_squad", "REPLACE",
                               TeamSquadRow(team_id, season_id, item)),
                       item.player)
            ELSE c
    IN  Loop(Begin(store), squad_data, "AttributeError", Body)

StandingTeamRow(team) ==
    [id |-> Get(team, "id"), name |-> Get(team, "name"),
     logo_path |-> Get(team, "logo_path")]

StandingRow(season_id, standing) ==
    LET team == GetOr(standing, "team", EmptyDict)
        overall == GetOr(standing, "overall", EmptyDict)
    IN
    [season_id |-> season_id,
     stage_id |-> Get(standing, "stage_id"),
     group_id |-> Get(standing, "group_id"),
     round_id |-> Get(standing, "round_id"),
     team_id |-> Get(team, "id"),
     position |-> Get(standing, "position"),
     points |-> Get(standing, "points"),
     played |-> Get(overall, "games_played"),
     won |-> Get(overall, "won"),
     drawn |-> Get(overall, "draw"),
     lost |-> Get(overall, "lost"),
     goals_for |-> Get(overall, "goals_scored"),
     goals_against |-> Get(overall, "goals_against"),
     goal_difference |-> Get(overall, "goal_difference")]

StandingsStatements(store, season_id, standings) ==
    LET Body(c, standing) ==
            Execute(Execute(c, "teams", "IGNORE",
                            StandingTeamRow(GetOr(standing, "team", EmptyDict))),
                    "standings", "INSERT", StandingRow(season_id, standing))
    IN  Loop(ExecuteDelete(Begin(store), "standings", "season_id", season_id),
             standings, "AttributeError", Body)

\* the field of a performer that holds the value of the category: category 1 is
\* 'goals', 2 'assists', 3 'cards'; any other category has none
CategoryField(category) ==
    CASE category = 1 -> "goals"
      [] category = 2 -> "assists"
      [] category = 3 -> "cards"
      [] OTHER -> ""

PerformerPlayerRow(player) ==
    [id |-> Get(player, "id"), name |-> Get(player, "name"),
     image_path |-> Get(player, "image_path")]

TopPerformerRow(season_id, category, rank, performer) ==
    [season_id |-> season_id,
     category |-> category,
     player_id |-> Get(GetOr(performer, "player", EmptyDict), "id"),
     team_id |-> Get(performer, "team_id"),
     value |-> IF CategoryField(category) = "" THEN 0
               ELSE GetOr(performer, CategoryField(category), 0),
     rank |-> rank]

\* enumerate(items, 1)
Enumerate(items) ==
    PyList([i \in DOMAIN items.list |-> [rank |-> i, item |-> items.list[i]]])

TopPerformersStatements(store, season_id, category, performers) ==
    LET Body(c, ranked) ==
            IF ~IsDict(ranked.item) THEN Raise(c, "AttributeError")
            ELSE Execute(Execute(c, "players", "IGNORE",
                                 PerformerPlayerRow(GetOr(ranked.item, "player", EmptyDict))),
                         "top_performers", "REPLACE",
                         TopPerformerRow(season_id, category, ranked.rank, ranked.item))
    IN  Loop(Begin(store), Enumerate(performers), "AttributeError", Body)

BookmakerRow(bookmaker) ==
    [id |-> Get(bookmaker, "id"), name |-> Get(bookmaker, "name"),
     logo |-> Get(bookmaker, "logo")]

BookmakersStatements(store, bookmakers) ==
    LET Body(c, bookmaker) ==
            Execute(Need(c, bookmaker, {"id", "name"}), "bookmakers", "REPLACE",
                    BookmakerRow(bookmaker))
    IN  Loop(Begin(store), bookmakers, "TypeError", Body)

MarketRow(market) ==
    [id |-> Get(market, "id"), name |-> Get(market, "name"),
     outcome_count |-> Get(market, "outcome_count")]

MarketsStatements(store, markets) ==
    LET Body(c, market) ==
            Execute(Need(c, market, {"id", "name"}), "markets", "REPLACE",
                    MarketRow(market))
    IN  Loop(Begin(store), markets, "TypeError", Body)

\* the markets tuple of insert_or_update_odds: outcome_count defaults to 0
OddsMarketRow(market) ==
    [id |-> Get(market, "id"), name |-> Get(market, "name"),
     outcome_count |-> GetOr(market, "outcome_count", 0)]

OddsRow(fixture_id, odd, outcome) ==
    [fixture_id |-> fixture_id,
     bookmaker_id |-> Get(GetOr(odd, "bookmaker", EmptyDict), "id"),
     market_id |-> Get(GetOr(odd, "market", EmptyDict), "id"),
     outcome |-> Get(outcome, "name"),
     odd_value |-> Get(outcome, "value"),
     last_updated |-> Get(odd, "last_updated")]

OddsStatements(store, fixture_id, odds_data) ==
    LET Outcomes(c, odd) ==
            LET Body(c1, outcome) ==
                    Execute(c1, "odds", "INSERT", OddsRow(fixture_id, odd, outcome))
            IN  Loop(c, GetOr(odd, "outcomes", PyList(<<>>)), "AttributeError", Body)
        Body(c, odd) ==
            Outcomes(Execute(Execute(c, "bookmakers", "IGNORE",
                                     BookmakerRow(GetOr(odd, "bookmaker", EmptyDict))),
                             "markets", "IGNORE",
                             OddsMarketRow(GetOr(odd, "market", EmptyDict))),
                     odd)
    IN  Loop(ExecuteDelete(Begin(store), "odds", "fixture_id", fixture_id),
             odds_data, "AttributeError", Body)

PredictionRow(fixture_id, predictions) ==
    LET p == GetOr(predictions, "predictions", EmptyDict) IN
    [fixture_id |-> fixture_id,
     prob_home |-> Get(p, "home"),
     prob_draw |-> Get(p, "draw"),
     prob_away |-> Get(p, "away")]

PredictionsStatements(store, fixture_id, predictions) ==
    Execute(Begin(store), "predictions", "REPLACE", PredictionRow(fixture_id, predictions))

-----------------------------------------------------------------------------
(* Watermarks *)

LastUpdatePrefix == 100

\* one key for every entity type
WatermarkKeyShared(entity_type) == LastUpdatePrefix

\* f"last_update_{entity_type}"
WatermarkKey(entity_type) == LastUpdatePrefix + entity_type

\* get_last_update_time: result[0] if result else None
GetLastUpdateTime(store, entity_type) ==
    LET t == store.rows["metadata"]
        hit == {r \in DOMAIN t : t[r].key = WatermarkKey(entity_type)}
    IN  IF hit = {} THEN NULL ELSE t[CHOOSE r \in hit : TRUE].value

\* set_last_update_time; now is what datetime.now().isoformat() returns
\* a set that stamps the watermark of every entity type
SetStatementsAll(store, entity_type, timestamp, now) ==
    LET value == IF timestamp = NULL THEN now ELSE timestamp IN
    Execute(Execute(Begin(store), "metadata", "REPLACE",
                    [key |-> LastUpdatePrefix + 1, value |-> value]),
            "metadata", "REPLACE", [key |-> LastUpdatePrefix + 2, value |-> value])

SetStatements(store, entity_type, timestamp, now) ==
    Execute(Begin(store), "metadata", "REPLACE",
            [key |-> WatermarkKey(entity_type),
             value |-> IF timestamp = NULL THEN now ELSE timestamp])

-----------------------------------------------------------------------------
(* build_fixtures.py: main *)

\* sportmonks.db before the script has run
EmptyBuilt == [leagues |-> <<>>, fixtures |-> <<>>]

\* what a fetch gives: the list of items, or the HTTPError of raise_for_status
HTTPError == [error |-> "HTTPError"]

Failed(answer) == "error" \in DOMAIN answer

BuiltLeagueRow(l) ==
    [id |-> Get(l, "id"), name |-> Get(l, "name"), country_id |-> Get(l, "country_id"),
     logo_path |-> Get(l, "logo_path"), slug |-> Get(l, "slug"), type |-> Get(l, "type")]

BuiltFixtureRow(f, lid) ==
    [id |-> Get(f, "id"),
     league_id |-> lid,
     date_time |-> Get(f, "starting_at"),
     status |-> Get(GetOr(f, "time", EmptyDict), "status"),
     home_team_id |-> Get(f, "localteam_id"),
     away_team_id |-> Get(f, "visitorteam_id"),
     home_score |-> Get(GetOr(f, "scores", EmptyDict), "localteam_score"),
     away_score |-> Get(GetOr(f, "scores", EmptyDict), "visitorteam_score")]

\* INSERT OR REPLACE of the items, in order, into a table keyed by id
ReplaceAll(table, items, Row(_)) ==
    LET ids == {items[i].id : i \in DOMAIN items} IN
    [id \in (DOMAIN table) \cup ids |->
        IF id \in ids
        THEN Row(items[MaxOf({i \in DOMAIN items : items[i].id = id})])
        ELSE table[id]]

\* steps 1 and 2: DROP TABLE leagues, reload it from the answer; DROP TABLE fixtures
RebuiltTables(leagues) ==
    [leagues |-> ReplaceAll(<<>>, leagues.list, BuiltLeagueRow), fixtures |-> <<>>]

\* step 3: for lid in league_ids, the fixtures of the league are fetched and stored;
\* an HTTPError ends the script
FixturesLoaded(tables, fixturesOf) ==
    LET final == MaxOf(DOMAIN tables.leagues)
        run[lid \in 0..final] ==
            IF lid = 0 THEN [tables |-> tables, err |-> "none"]
            ELSE LET b == run[lid - 1] IN
                 IF b.err # "none" \/ lid \notin DOMAIN tables.leagues THEN b
                 ELSE IF Failed(fixturesOf[lid]) THEN [b EXCEPT !.err = "HTTPError"]
                 ELSE LET Row(f) == BuiltFixtureRow(f, lid) IN
                      [b EXCEPT !.tables.fixtures =
                          ReplaceAll(@, fixturesOf[lid].list, Row)]
    IN  run[final]

\* main(): leagues is what fetch_all("leagues") gives, fixturesOf[lid] what the
\* fixtures requests of league lid give
Main(tables, leagues, fixturesOf) ==
    IF Failed(leagues) THEN [tables |-> tables, err |-> "HTTPError"]
    ELSE FixturesLoaded(RebuiltTables(leagues), fixturesOf)

-----------------------------------------------------------------------------
(* sportsmonks_api_client.py: SportMonksAPI *)

\* 3600 seconds, and the 0.1 seconds between requests, in tenths of a second
Hour == 36000

Delay == 1

\* SportMonksAPI(api_token, base_url, rate_limit) constructed at time now
NewApi(rate_limit, now) ==
    [rate_limit |-> rate_limit, request_count |-> 0, request_reset_time |-> now + Hour]

\* nothing was sent yet.  raised: what the last make_request raised; sent: the requests sent since request_reset_time was last
\* assigned; countAtSend: request_count when the last request was sent (NULL: none);
\* countAtReset: request_count when request_reset_time was last assigned
NothingSent ==
    [sent |-> 0, countAtSend |-> NULL, countAtReset |-> 0, raised |-> "none",
     total |-> 0, ticks |-> 0]

\* what requests.get and raise_for_status can come to: a 2xx response; a response with
\* an error status, 429 included (raise_for_status raises HTTPError); no response to a
\* request that was sent (requests.get raises ConnectionError)
Outcomes == {"ok", "HTTPError", "ConnectionError"}

\* _handle_rate_limit(): x is [clock, api, wire]
HandleRateLimit(x) ==
    LET current_time == x.clock
        expired == current_time > x.api.request_reset_time
        a1 == IF expired
              THEN [x.api EXCEPT !.request_count = 0,
                                 !.request_reset_time = current_time + Hour]
              ELSE x.api
        w1 == IF expired THEN [x.wire EXCEPT !.sent = 0, !.countAtReset = a1.request_count]
              ELSE x.wire
        full == a1.request_count >= a1.rate_limit
        wait_time == a1.request_reset_time - current_time
        woken == current_time + wait_time
        a2 == IF full
              THEN [a1 EXCEPT !.request_count = 0, !.request_reset_time = woken + Hour]
              ELSE a1
        w2 == IF full THEN [w1 EXCEPT !.sent = 0, !.countAtReset = a2.request_count] ELSE w1
    IN  [clock |-> (IF full THEN woken ELSE current_time) + Delay, api |-> a2, wire |-> w2]

\* make_request(endpoint, params) meeting outcome: request_count += 1 follows
\* requests.get, so it is skipped when requests.get raises; every RequestException is
\* printed and raised again
MakeRequest(x, outcome) ==
    LET h == HandleRateLimit(x)
        counted == outcome # "ConnectionError"
    IN  [clock |-> h.clock,
         api |-> IF counted THEN [h.api EXCEPT !.request_count = @ + 1] ELSE h.api,
         wire |-> [h.wire EXCEPT !.sent = @ + 1,
                                 !.countAtSend = h.api.request_count,
                                 !.raised = IF outcome = "ok" THEN "none" ELSE outcome,
                                 !.total = @ + 1]]

\* a server exposing total_pages = n pages, pages[p] the data of page p
ServerOf(n, pages) == [total_pages |-> n, pages |-> pages]

\* response.json() of the request for page p
ResponseOf(server, p) ==
    [data |-> PyList(IF p \in DOMAIN server.pages THEN server.pages[p] ELSE <<>>),
     pagination |-> [total_pages |-> server.total_pages]]

\* fetch_paginated_data is not running
Idle(server) ==
    [pc |-> "idle", page |-> 0, total_pages |-> 0, all_data |-> <<>>,
     requested |-> <<>>, err |-> "none", ret |-> NULL, server |-> server]

\* fetch_paginated_data: all_data = [], page = 1, total_pages = 1
Started(run) ==
    [run EXCEPT !.pc = "loop", !.page = 1, !.total_pages = 1, !.all_data = <<>>,
                !.requested = <<>>, !.err = "none", !.ret = NULL]

\* the while loop after its test: return all_data when page > total_pages
Tested(run) ==
    IF run.pc = "loop" /\ run.page > run.total_pages
    THEN [run EXCEPT !.pc = "returned", !.ret = PyList(run.all_data)]
    ELSE run

\* one pass of the while loop, err what make_request raised and response what it
\* returned
Pass(run, err, response) ==
    LET asked == [run EXCEPT !.requested = Append(@, run.page)]
        total_pages == GetOr(GetOr(response, "pagination", EmptyDict), "total_pages", 1)
        data == GetOr(response, "data", PyList(<<>>))
    IN  IF err # "none" THEN [asked EXCEPT !.pc = "raised", !.err = err]
        ELSE IF ~Truthy(data)
        THEN [asked EXCEPT !.total_pages = total_pages, !.pc = "returned",
                           !.ret = PyList(run.all_data)]
        ELSE Tested([asked EXCEPT !.total_pages = total_pages,
                                  !.all_data = @ \o data.list,
                                  !.page = @ + 1])

-----------------------------------------------------------------------------
(* build_fixtures.py: fetch_all *)

\* a throttle that never ends
Forever == -1

\* the API as fetch_all meets it: pages[p] = [data, has_more] is the answer for page
\* p, an empty page after the last one; throttle is the number of 429 answers it still
\* may give, or Forever
FeedOf(pages, throttle) == [pages |-> pages, throttle |-> throttle]

AnswerOf(feed, p) ==
    IF p \in DOMAIN feed.pages THEN feed.pages[p] ELSE [data |-> <<>>, has_more |-> FALSE]

\* fetch_all is not running
NotFetching(feed) ==
    [pc |-> "idle", items |-> <<>>, page |-> 0, answered |-> <<>>, asked |-> 0,
     status |-> 0, throttled |-> FALSE, err |-> "none", ret |-> NULL, feed |-> feed]

\* fetch_all: items, page = [], 1
FetchStarted(run) ==
    [run EXCEPT !.pc = "loop", !.items = <<>>, !.page = 1, !.answered = <<>>,
                !.asked = 0, !.status = 0, !.throttled = FALSE, !.err = "none",
                !.ret = NULL]

\* a pass of the loop in which a 429 answer moves on to the next page
FetchPassSkipping(run, status) ==
    LET asked == [run EXCEPT !.asked = run.page, !.status = status]
        answer == AnswerOf(run.feed, run.page)
        taken == [asked EXCEPT !.answered = Append(@, run.page)]
    IN  IF status = 429
        THEN [asked EXCEPT !.feed.throttle = IF @ = Forever THEN Forever ELSE @ - 1,
                           !.throttled = TRUE, !.page = @ + 1]
        ELSE IF status # 200 THEN [asked EXCEPT !.pc = "raised", !.err = "HTTPError"]
        ELSE IF answer.data = <<>>
        THEN [taken EXCEPT !.pc = "returned", !.ret = PyList(run.items)]
        ELSE IF ~answer.has_more
        THEN [taken EXCEPT !.items = @ \o answer.data, !.pc = "returned",
                           !.ret = PyList(run.items \o answer.data)]
        ELSE [taken EXCEPT !.items = @ \o answer.data, !.page = @ + 1]

\* one pass of the while True loop of fetch_all, the request answered with status:
\* 429 sleeps and continues; another error status raises HTTPError; an empty page
\* ends the loop, a page without has_more ends it after its items were added
FetchPass(run, status) ==
    LET asked == [run EXCEPT !.asked = run.page, !.status = status]
        answer == AnswerOf(run.feed, run.page)
        taken == [asked EXCEPT !.answered = Append(@, run.page)]
    IN  IF status = 429
        THEN [asked EXCEPT !.feed.throttle = IF @ = Forever THEN Forever ELSE @ - 1,
                           !.throttled = TRUE]
        ELSE IF status # 200 THEN [asked EXCEPT !.pc = "raised", !.err = "HTTPError"]
        ELSE IF answer.data = <<>>
        THEN [taken EXCEPT !.pc = "returned", !.ret = PyList(run.items)]
        ELSE IF ~answer.has_more
        THEN [taken EXCEPT !.items = @ \o answer.data, !.pc = "returned",
                           !.ret = PyList(run.items \o answer.data)]
        ELSE [taken EXCEPT !.items = @ \o answer.data, !.page = @ + 1]

\* the statuses the feed can answer the next request with
Statuses(feed) ==
    IF feed.throttle = Forever THEN {429}
    ELSE IF feed.throttle > 0 THEN {429, 200, 500}
    ELSE {200, 500}

-----------------------------------------------------------------------------
(* Operations *)

Op(name, arg, c, ret) ==
    [op |-> name, arg |-> arg, err |-> c.err, trace |-> c.trace, ret |-> ret]

\* the rows a failed call leaves in the open transaction that disk does not hold
Uncommitted(c, committed) ==
    {[table |-> c.trace[i].table, rowid |-> c.trace[i].rowid, row |-> c.trace[i].row] :
        i \in {j \in DOMAIN c.trace :
                 /\ c.trace[j].effect # "ignored"
                 /\ c.trace[j].rowid \in DOMAIN c.db.rows[c.trace[j].table]
                 /\ c.db.rows[c.trace[j].table][c.trace[j].rowid] = c.trace[j].row
                 /\ ~(/\ c.trace[j].rowid \in DOMAIN committed.rows[c.trace[j].table]
                      /\ committed.rows[c.trace[j].table][c.trace[j].rowid]
                            = c.trace[j].row)}}

\* the keys a call wrote
Written(c) ==
    {<<c.trace[i].table, c.trace[i].rowid>> :
        i \in {j \in DOMAIN c.trace : c.trace[j].effect # "ignored"}}

\* one call of a method: c is the run of its statements, committed what the
\* database file holds when the call returns or raises
Call(bound, name, arg, c, ret, committed) ==
    /\ nOps < bound
    /\ db' = c.db
    /\ disk' = committed
    /\ prev' = db
    /\ prevDisk' = disk
    /\ last' = Op(name, arg, c, ret)
    /\ built' = built
    /\ prevBuilt' = built
    /\ nOps' = nOps + 1
    /\ UNCHANGED <<clientVars, fetched>>

\* one call of a method that ends with self.commit()
Step(bound, name, arg, c, ret) == Call(bound, name, arg, c, ret, CommitOf(c, disk))

\* insert_or_update_fixture returning or raising, c the run of its statements
FixtureReturn(bound, fixture_data, c) ==
    /\ Step(bound, "insert_or_update_fixture", [fixture_data |-> fixture_data], c, NULL)
    /\ halfWritten' =
          IF c.err # "none" THEN halfWritten \cup Uncommitted(c, disk)
          ELSE {w \in halfWritten : <<w.table, w.rowid>> \notin Written(c)}
    /\ UNCHANGED lastSet

InsertOrUpdateFixture(fixture_data) ==
    FixtureReturn(MaxOps, fixture_data, FixtureStatements(db, fixture_data))

InsertOrUpdateContinentsCall(bound, continents) ==
    /\ Step(bound, "insert_or_update_continents", [continents |-> continents],
            ContinentsStatements(db, continents), NULL)
    /\ UNCHANGED <<halfWritten, lastSet>>

InsertOrUpdateContinents(continents) == InsertOrUpdateContinentsCall(MaxOps, continents)

ContinentLists ==
    {PyList(<<[id |-> 1, name |-> n]>>) : n \in {1, 2}}
        \cup {PyList(<<[id |-> 2, name |-> 1], [name |-> 2]>>)}

\* a database on which create_tables() has run
StoreInit ==
    /\ db = EmptyStore
    /\ disk = EmptyStore
    /\ prev = EmptyStore
    /\ prevDisk = EmptyStore
    /\ last = [op |-> "create_tables", arg |-> EmptyDict, err |-> "none",
               trace |-> <<>>, ret |-> NULL]
    /\ halfWritten = {}
    /\ lastSet = [e \in EntityTypes |-> <<>>]
    /\ built = EmptyBuilt
    /\ prevBuilt = EmptyBuilt
    /\ nOps = 0

Init ==
    /\ StoreInit
    /\ clock = 0
    /\ api = NewApi(1, 0)
    /\ wire = NothingSent
    /\ paged = Idle(ServerOf(1, <<>>))
    /\ fetched = NotFetching(FeedOf(<<>>, 0))

Next ==
    \/ \E fixture_data \in Payloads : InsertOrUpdateFixture(fixture_data)
    \/ \E continents \in ContinentLists : InsertOrUpdateContinents(continents)

Spec == Init /\ [][Next]_vars

-----------------------------------------------------------------------------
(* The dedicated upserters as operations *)

UpsertCall(bound, name, arg, c) ==
    /\ Step(bound, name, arg, c, NULL)
    /\ UNCHANGED <<halfWritten, lastSet>>

Upsert(name, arg, c) == UpsertCall(MaxOps, name, arg, c)

InsertOrUpdateTeams(teams) ==
    Upsert("insert_or_update_teams", [teams |-> teams], TeamsStatements(db, teams))

InsertOrUpdateCities(cities) ==
    Upsert("insert_or_update_cities", [cities |-> cities], CitiesStatements(db, cities))

InsertOrUpdateVenues(venues) ==
    Upsert("insert_or_update_venues", [venues |-> venues], VenuesStatements(db, venues))

InsertOrUpdateStates(states) ==
    Upsert("insert_or_update_states", [states |-> states], StatesStatements(db, states))

InsertOrUpdatePlayers(players) ==
    Upsert("insert_or_update_players", [players |-> players],
           PlayersStatements(db, players))

InsertOrUpdateTeamSquad(team_id, season_id, squad_data) ==
    Upsert("insert_or_update_team_squad",
           [team_id |-> team_id, season_id |-> season_id, squad_data |-> squad_data],
           TeamSquadStatements(db, team_id, season_id, squad_data))

InsertOrUpdateStandingsCall(bound, season_id, standings) ==
    UpsertCall(bound, "insert_or_update_standings",
               [season_id |-> season_id, standings |-> standings],
               StandingsStatements(db, season_id, standings))

InsertOrUpdateStandings(season_id, standings) ==
    InsertOrUpdateStandingsCall(MaxOps, season_id, standings)

Names == {1, 2}

TeamLists ==
    {PyList(<<[id |-> 1, name |-> n]>>) : n \in Names}
        \cup {PyList(<<[id |-> 1, name |-> 1, short_code |-> 5]>>),
              PyList(<<[id |-> 1]>>)}

CityLists == {PyList(<<[id |-> 1, name |-> n]>>) : n \in Names}

VenueLists ==
    {PyList(<<[id |-> 1, name |-> 1, city |-> [id |-> 1, name |-> n]]>>) : n \in Names}
        \cup {PyList(<<[id |-> 1, name |-> 2, capacity |-> 7]>>)}

StateLists == {PyList(<<[id |-> 1, name |-> n]>>) : n \in Names}

PlayerLists == {PyList(<<[id |-> 1, name |-> n]>>) : n \in Names}

PlayerIds == {1, 2}

JerseyNumbers == {1, 2}

SquadLists ==
    {PyList(<<[player |-> [id |-> p, name |-> 1], jersey_number |-> j]>>) :
        p \in PlayerIds, j \in JerseyNumbers}
        \cup {PyList(<<[player |-> [id |-> 1, name |-> 2], jersey_number |-> 1],
                       [player |-> [id |-> 1, name |-> 2], jersey_number |-> 2]>>),
              PyList(<<[player |-> [id |-> 1, name |-> 1], jersey_number |-> 1],
                       [player |-> [id |-> 2, name |-> 1], jersey_number |-> 1]>>),
              PyList(<<[jersey_number |-> 1]>>),
              PyList(<<[player |-> [id |-> 2], jersey_number |-> 1]>>),
              PyList(<<[player |-> [id |-> 1, name |-> 1,
                                    statistics |-> PyList(<<[type |-> [id |-> 1, name |-> 1],
                                                             value |-> 3]>>)],
                        jersey_number |-> 2, on_loan |-> 1]>>)}

StandingLists ==
    {PyList(<<[position |-> 1, points |-> 3, team |-> [id |-> 1, name |-> n]]>>) :
        n \in Names}
        \cup {PyList(<<>>), PyList(<<[position |-> 1]>>)}

\* payloads whose embedded records meet rows the dedicated upserters wrote
StubPayloads ==
    {[id |-> 1, state |-> [id |-> 1, name |-> 2]],
     [id |-> 1, participants |-> PyList(<<[id |-> 1, name |-> 2]>>)],
     [id |-> 1, venue |-> [id |-> 1, name |-> 2]]}

NextUpsert ==
    \/ \E teams \in TeamLists : InsertOrUpdateTeams(teams)
    \/ \E cities \in CityLists : InsertOrUpdateCities(cities)
    \/ \E venues \in VenueLists : InsertOrUpdateVenues(venues)
    \/ \E states \in StateLists : InsertOrUpdateStates(states)
    \/ \E players \in PlayerLists : InsertOrUpdatePlayers(players)
    \/ \E squad_data \in SquadLists : InsertOrUpdateTeamSquad(1, 1, squad_data)
    \/ \E standings \in StandingLists : InsertOrUpdateStandings(1, standings)
    \/ \E fixture_data \in StubPayloads : InsertOrUpdateFixture(fixture_data)

SpecUpsert == Init /\ [][NextUpsert]_vars

-----------------------------------------------------------------------------
(* Collections that are reloaded, and the script that rebuilds its tables *)

MaxReloads == 3

Reload(name, arg, c) == UpsertCall(MaxReloads, name, arg, c)

InsertOrUpdateTopPerformers(season_id, category, performers) ==
    Reload("insert_or_update_top_performers",
           [season_id |-> season_id, category |-> category, performers |-> performers],
           TopPerformersStatements(db, season_id, category, performers))

InsertOrUpdateBookmakers(bookmakers) ==
    Reload("insert_or_update_bookmakers", [bookmakers |-> bookmakers],
           BookmakersStatements(db, bookmakers))

InsertOrUpdateMarkets(markets) ==
    Reload("insert_or_update_markets", [markets |-> markets],
           MarketsStatements(db, markets))

InsertOrUpdateOdds(fixture_id, odds_data) ==
    Reload("insert_or_update_odds", [fixture_id |-> fixture_id, odds_data |-> odds_data],
           OddsStatements(db, fixture_id, odds_data))

InsertOrUpdatePredictions(fixture_id, predictions) ==
    Reload("insert_or_update_predictions",
           [fixture_id |-> fixture_id, predictions |-> predictions],
           PredictionsStatements(db, fixture_id, predictions))

\* one run of the script, m what it leaves
MainReturn(leagues, fixturesOf, m) ==
    /\ nOps < MaxReloads
    /\ built' = m.tables
    /\ prevBuilt' = built
    /\ prev' = db
    /\ prevDisk' = disk
    /\ last' = [op |-> "main", arg |-> [leagues |-> leagues, fixturesOf |-> fixturesOf],
                err |-> m.err, trace |-> <<>>, ret |-> NULL]
    /\ nOps' = nOps + 1
    /\ UNCHANGED <<db, disk, halfWritten, lastSet, clientVars, fetched>>

BuildFixtures(leagues, fixturesOf) ==
    MainReturn(leagues, fixturesOf, Main(built, leagues, fixturesOf))

SeasonIds == {1, 2}

ReloadStandingLists ==
    {PyList(<<>>),
     PyList(<<[position |-> 1, points |-> 3, team |-> [id |-> 1, name |-> 1]],
              [position |-> 2, points |-> 1, team |-> [id |-> 2, name |-> 2]]>>),
     PyList(<<[position |-> 1, points |-> 3], PyInt(5)>>)}

Odd(b) ==
    [bookmaker |-> [id |-> b, name |-> 1], market |-> Named,
     outcomes |-> PyList(<<[name |-> 1, value |-> 2], [name |-> 2, value |-> 3]>>)]

OddsLists ==
    {PyList(<<>>),
     PyList(<<Odd(1), [outcomes |-> PyList(<<[name |-> 1]>>)]>>),
     PyList(<<Odd(1), [outcomes |-> PyInt(5)]>>)}

PerformerLists == {PyList(<<[player |-> Named, goals |-> 3], [team_id |-> 1]>>)}

Categories == {1, 4}

LeagueAnswers == {HTTPError, PyList(<<>>), PyList(<<Named>>),
                  PyList(<<Named, [id |-> 2, name |-> 2]>>)}

\* the fixtures of league lid: one (fixture lid), or an HTTPError
FixtureAnswers(lid) == {HTTPError, PyList(<<[id |-> lid]>>)}

FixtureAnswersOf(leagues) ==
    IF Failed(leagues) THEN {<<>>}
    ELSE LET ids == {leagues.list[i].id : i \in DOMAIN leagues.list} IN
         {a \in [ids -> UNION {FixtureAnswers(lid) : lid \in ids}] :
             \A lid \in ids : a[lid] \in FixtureAnswers(lid)}

NextReload ==
    \/ \E season_id \in SeasonIds, standings \in ReloadStandingLists :
          InsertOrUpdateStandingsCall(MaxReloads, season_id, standings)
    \/ \E fixture_id \in FixtureIds, odds_data \in OddsLists :
          InsertOrUpdateOdds(fixture_id, odds_data)
    \/ \E category \in Categories, performers \in PerformerLists :
          InsertOrUpdateTopPerformers(1, category, performers)
    \/ \E bookmakers \in {PyList(<<[id |-> 1, name |-> 2]>>), PyList(<<[id |-> 1]>>)} :
          InsertOrUpdateBookmakers(bookmakers)
    \/ \E markets \in {PyList(<<[id |-> 1, name |-> 2, outcome_count |-> 3]>>)} :
          InsertOrUpdateMarkets(markets)
    \/ \E predictions \in {EmptyDict, [predictions |-> [home |-> 1]]} :
          InsertOrUpdatePredictions(1, predictions)
    \/ \E leagues \in LeagueAnswers : \E fixturesOf \in FixtureAnswersOf(leagues) :
          BuildFixtures(leagues, fixturesOf)

SpecReload == Init /\ [][NextReload]_vars

-----------------------------------------------------------------------------
(* insert_or_update_fixtures *)

\* a loop that leaves the commit to its caller
AfterFixtureUncommitted(b, c) ==
    [db |-> c.db,
     disk |-> b.disk,
     trace |-> b.trace \o c.trace,
     err |-> c.err,
     done |-> IF c.err = "none" THEN b.done + 1 ELSE b.done]

\* the batch after one more call of insert_or_update_fixture, c the run of its
\* statements: the call commits unless it raised
AfterFixture(b, c) ==
    [db |-> c.db,
     disk |-> CommitOf(c, b.disk),
     trace |-> b.trace \o c.trace,
     err |-> c.err,
     done |-> IF c.err = "none" THEN b.done + 1 ELSE b.done]

\* a pass that catches what the fixture raises and goes on
FixturesPassCatching(b, fixture) ==
    [AfterFixture(b, FixtureStatements(b.db, fixture)) EXCEPT !.err = "none"]

\* one pass of the loop: self.insert_or_update_fixture(fixture)
FixturesPass(b, fixture) == AfterFixture(b, FixtureStatements(b.db, fixture))

\* for fixture in fixtures: self.insert_or_update_fixture(fixture); an exception
\* ends the loop
FixturesStatements(store, committed, fixtures) ==
    LET items == fixtures.list
        run[i \in 0..Len(items)] ==
            IF i = 0
            THEN [db |-> store, disk |-> committed, trace |-> <<>>, err |-> "none",
                  done |-> 0]
            ELSE LET b == run[i - 1] IN
                 IF b.err # "none" THEN b ELSE FixturesPass(b, items[i])
    IN  run[Len(items)]

\* the method returns nothing: ret is None when it returns, and unset when it raises
FixturesReturn(fixtures, c) ==
    /\ Call(MaxOps, "insert_or_update_fixtures",
            [fixtures |-> fixtures, done |-> c.done], c, NULL,
            CommitOf(c, c.disk))
    /\ halfWritten' =
          IF c.err # "none" THEN halfWritten \cup Uncommitted(c, c.disk)
          ELSE {w \in halfWritten : <<w.table, w.rowid>> \notin Written(c)}
    /\ UNCHANGED lastSet

InsertOrUpdateFixtures(fixtures) ==
    FixturesReturn(fixtures, FixturesStatements(db, disk, fixtures))

MaxBatch == 3

BatchIds == 1..MaxBatch

BatchShapes == {"ingests", "malformed", "rejected"}

\* a payload that ingests, one whose statistics is no list of mappings, or one with an
\* event type that has no name, a row the store rejects (event_types.name NOT NULL)
BatchPayload(f, shape) ==
    LET good == [id |-> f, scores |-> PyList(<<[Score(f, 1) EXCEPT !.id = f]>>)] IN
    CASE shape = "ingests" -> good
      [] shape = "malformed" -> good @@ [statistics |-> PyList(<<PyInt(5)>>)]
      [] OTHER -> good @@ [events |-> PyList(<<Event(f) @@ [type |-> [id |-> 1]]>>)]

\* the batches of the fixtures first..final, one payload each, at most one of them a
\* payload that does not ingest
BatchesOver(first, final) ==
    {PyList([k \in 1..(final - first + 1) |-> BatchPayload(first + k - 1, shape[first + k - 1])]) :
        shape \in {sh \in [first..final -> BatchShapes] :
                      \A i, j \in first..final :
                          sh[i] # "ingests" /\ sh[j] # "ingests" => i = j}}

Batches ==
    {PyList(<<>>)}
        \cup UNION {BatchesOver(first, final) :
                      first \in BatchIds, final \in BatchIds}

NextBatch ==
    \/ \E fixtures \in Batches : InsertOrUpdateFixtures(fixtures)
    \/ \E continents \in ContinentLists : InsertOrUpdateContinents(continents)

SpecBatch == Init /\ [][NextBatch]_vars

-----------------------------------------------------------------------------
(* Calls of the API client *)

MaxRequests == 4

MaxTicks == 1

MaxPages == 3

\* time passes between two calls
Tick(elapsed) ==
    /\ wire.ticks < MaxTicks
    /\ clock' = clock + elapsed
    /\ wire' = [wire EXCEPT !.ticks = @ + 1]
    /\ UNCHANGED <<storeVars, api, paged, fetched>>

\* make_request has run, x what it left, and run what it left of fetch_paginated_data
Sent(x, run) ==
    /\ wire.total < MaxRequests
    /\ clock' = x.clock
    /\ api' = x.api
    /\ wire' = x.wire
    /\ paged' = run
    /\ UNCHANGED <<storeVars, fetched>>

\* a call of make_request on its own, as fetch_fixture_details makes it
MakeRequestCall(outcome) ==
    /\ paged.pc # "loop"
    /\ Sent(MakeRequest([clock |-> clock, api |-> api, wire |-> wire], outcome), paged)

\* fetch_paginated_data(endpoint, params) is called
FetchPaginatedData ==
    /\ paged.pc = "idle"
    /\ paged' = Started(paged)
    /\ UNCHANGED <<storeVars, clock, api, wire, fetched>>

\* response = self.make_request(endpoint, params), and the rest of the pass
FetchPaginatedPass(outcome) ==
    /\ paged.pc = "loop"
    /\ Sent(MakeRequest([clock |-> clock, api |-> api, wire |-> wire], outcome),
            Pass(paged, IF outcome = "ok" THEN "none" ELSE outcome,
                 ResponseOf(paged.server, paged.page)))

RateLimits == {1, 2}

\* the data of page p: none, or two items
PageData(p) == {<<>>, <<10 * p, 10 * p + 1>>}

Servers ==
    UNION {{ServerOf(n, pages) : pages \in {ps \in [1..n -> UNION {PageData(p) : p \in 1..n}] :
                                               \A p \in 1..n : ps[p] \in PageData(p)}} :
             n \in 1..MaxPages}

Elapsed == {1, Hour + 1}

InitApi ==
    /\ StoreInit
    /\ clock = 0
    /\ \E rate_limit \in RateLimits : api = NewApi(rate_limit, 0)
    /\ wire = NothingSent
    /\ \E server \in Servers : paged = Idle(server)
    /\ fetched = NotFetching(FeedOf(<<>>, 0))

NextApi ==
    \/ \E elapsed \in Elapsed : Tick(elapsed)
    \/ \E outcome \in Outcomes : MakeRequestCall(outcome)
    \/ FetchPaginatedData
    \/ \E outcome \in Outcomes : FetchPaginatedPass(outcome)

SpecApi == InitApi /\ [][NextApi]_vars

-----------------------------------------------------------------------------
(* Runs of fetch_all *)

MaxThrottle == 2

\* fetch_all(endpoint, params) is called
FetchAll ==
    /\ fetched.pc = "idle"
    /\ fetched' = FetchStarted(fetched)
    /\ UNCHANGED <<storeVars, clientVars>>

\* resp = requests.get(...) answered with status, and the rest of the pass
FetchAllPass(status) ==
    /\ fetched.pc = "loop"
    /\ status \in Statuses(fetched.feed)
    /\ fetched' = FetchPass(fetched, status)
    /\ UNCHANGED <<storeVars, clientVars>>

\* the answer for page p: no or two items, with or without has_more
Answers(p) == {[data |-> d, has_more |-> m] : d \in PageData(p), m \in BOOLEAN}

Feeds ==
    UNION {{FeedOf(pages, throttle) :
              pages \in {ps \in [1..n -> UNION {Answers(p) : p \in 1..n}] :
                            \A p \in 1..n : ps[p] \in Answers(p)},
              throttle \in (0..MaxThrottle) \cup {Forever}} :
             n \in 0..MaxPages}

InitFetch ==
    /\ StoreInit
    /\ clock = 0
    /\ api = NewApi(1, 0)
    /\ wire = NothingSent
    /\ paged = Idle(ServerOf(1, <<>>))
    /\ \E feed \in Feeds : fetched = NotFetching(feed)

NextFetch ==
    \/ FetchAll
    \/ \E status \in {200, 429, 500} : FetchAllPass(status)

\* the script runs on: a pass of the loop that can be made is made
SpecFetch == InitFetch /\ [][NextFetch]_vars /\ WF_vars(NextFetch)

-----------------------------------------------------------------------------
(* Watermark operations *)

SetLastUpdateTime(entity_type, timestamp, now) ==
    /\ Step(MaxCalls, "set_last_update_time",
            [entity_type |-> entity_type, timestamp |-> timestamp],
            SetStatements(db, entity_type, timestamp, now), NULL)
    /\ lastSet' = [lastSet EXCEPT ![entity_type] =
                      Append(@, IF timestamp = NULL THEN now ELSE timestamp)]
    /\ UNCHANGED halfWritten

\* a SELECT: nothing is written and nothing committed
GetLastUpdateTimeCall(entity_type) ==
    /\ Call(MaxCalls, "get_last_update_time", [entity_type |-> entity_type],
            Begin(db), GetLastUpdateTime(db, entity_type), disk)
    /\ UNCHANGED <<halfWritten, lastSet>>

\* the ingestions between two watermark calls: one that stores a fixture and its
\* score, one that fails after writing them
MetaPayloads ==
    {[id |-> 1, scores |-> PyList(<<Score(1, 1)>>)],
     [id |-> 1, scores |-> PyList(<<Score(1, 1)>>), statistics |-> PyList(<<PyInt(5)>>)]}

IngestBetween(fixture_data) ==
    FixtureReturn(MaxCalls, fixture_data, FixtureStatements(db, fixture_data))

NextMeta ==
    \/ \E e \in EntityTypes, t \in Timestamps : SetLastUpdateTime(e, t, t)
    \/ \E e \in EntityTypes, now \in Timestamps : SetLastUpdateTime(e, NULL, now)
    \/ \E e \in EntityTypes : GetLastUpdateTimeCall(e)
    \/ \E fixture_data \in MetaPayloads : IngestBetween(fixture_data)

SpecMeta == Init /\ [][NextMeta]_vars

-----------------------------------------------------------------------------
(* Reading a store and a trace *)

\* the rows of a table as the program can read them: by rowid where the rowid is
\* the INTEGER PRIMARY KEY, as a bag of rows where the rowid is hidden
Content(store, table) ==
    LET t == store.rows[table] IN
    IF table \in HiddenRowidTables
    THEN [row \in Range(t) |-> Cardinality({r \in DOMAIN t : t[r] = row})]
    ELSE t

\* how many rows of the table equal row
Copies(store, table, row) ==
    Cardinality({r \in DOMAIN store.rows[table] : store.rows[table][r] = row})

SameRows(s1, s2) == \A table \in Tables : Content(s1, table) = Content(s2, table)

\* the positions of the trace at which a row of one of the tables was stored
Positions(trace, tables) ==
    {i \in DOMAIN trace : trace[i].table \in tables /\ trace[i].effect # "ignored"}

\* every write into the tables `first` precedes every write into the tables `then`
Precedes(trace, first, then) ==
    \A i \in Positions(trace, first), j \in Positions(trace, then) : i < j

IsFixtureCall == last.op = "insert_or_update_fixture"

Payload == last.arg.fixture_data

OptionalKeys ==
    {"league", "venue", "state", "participants", "scores", "events", "statistics",
     "sidelined", "weatherreport"}

\* the tables a key of the payload fans out to
KeyTables ==
    [ league |-> {"leagues"},
      venue |-> {"venues"},
      state |-> {"states"},
      participants |-> {"teams", "fixture_participants"},
      scores |-> {"scores"},
      events |-> {"events", "event_types", "periods"},
      statistics |-> {"fixture_team_stats", "stat_types"},
      sidelined |-> {"fixture_sidelines", "sidelines", "sideline_types"},
      weatherreport |-> {"weather_reports"} ]

\* the table holding one row per item of the key
MainTable ==
    [ league |-> "leagues", venue |-> "venues", state |-> "states",
      participants |-> "fixture_participants", scores |-> "scores", events |-> "events",
      statistics |-> "fixture_team_stats", sidelined |-> "fixture_sidelines",
      weatherreport |-> "weather_reports" ]

\* the items of a list-valued key (none when the value is no list)
Items(d, k) ==
    IF k \in DOMAIN d /\ IsList(d[k]) THEN Range(d[k].list) ELSE {}

\* a payload whose sub-mappings have the documented shape: lists of mappings where a
\* list is expected, and a name in every named sub-record
WellShaped(d) ==
    /\ \A k \in {"participants", "scores", "events", "statistics", "sidelined"} :
          k \in DOMAIN d => IsList(d[k]) /\ \A x \in Items(d, k) : IsDict(x)
    /\ \A e \in Items(d, "events") :
          "type" \in DOMAIN e => "name" \in DOMAIN e.type

-----------------------------------------------------------------------------
(* C1 *)

\* C1: running insert_or_update_fixture(P), P a payload that names its fixture, a
\* second time on the store the first run left behind changes no table: same rows,
\* no additional rows, also where a sub-record of P has no id.
C1_FixtureIdempotent ==
    (IsFixtureCall /\ last.err = "none" /\ "id" \in DOMAIN Payload)
        => SameRows(FixtureStatements(db, Payload).db, db)

-----------------------------------------------------------------------------
(* C3 *)

\* C3: no row that a failed insert_or_update_fixture call wrote is ever committed.
C3_PerFixtureAtomicity ==
    \A w \in halfWritten :
        ~(/\ w.rowid \in DOMAIN disk.rows[w.table]
          /\ disk.rows[w.table][w.rowid] = w.row)

-----------------------------------------------------------------------------
(* C5 *)

-----------------------------------------------------------------------------
(* C6 *)

\* the positions at which the trace stored a row of table that satisfies Is
Stores(trace, table, Is(_)) ==
    {i \in Positions(trace, {table}) : Is(trace[i].row)}

\* C6: every fixture_participants row names a stored teams row; and an ingestion of a
\* payload with participants stores, for every participant, the teams row and then
\* the fixture_participants row that links it to the fixture.
C6_ParticipantsComplete ==
    /\ \A r \in Range(db.rows["fixture_participants"]) :
          r.team_id \in DOMAIN db.rows["teams"]
    /\ IsFixtureCall =>
          \A p \in Items(Payload, "participants") :
              (IsDict(p) /\ "id" \in DOMAIN p /\ "name" \in DOMAIN p) =>
                  LET IsTeam(row) == row.id = p.id
                      IsLink(row) == row.team_id = p.id
                      teams == Stores(last.trace, "teams", IsTeam)
                      links == Stores(last.trace, "fixture_participants", IsLink)
                  IN  /\ teams # {}
                      /\ links # {}
                      /\ \A i \in teams, j \in links : i < j
                      /\ p.id \in DOMAIN db.rows["teams"]

-----------------------------------------------------------------------------
(* C7 *)

\* C7: after a successful ingestion whose payload carries a score record with id s
\* and goals g, exactly one scores row has id s and it holds g, whatever the row
\* held before.
C7_ScoreOverwrite ==
    (IsFixtureCall /\ last.err = "none") =>
        \A score \in Items(Payload, "scores") :
            "id" \in DOMAIN score =>
                LET t == db.rows["scores"]
                    same == {r \in DOMAIN t : t[r].id = score.id}
                IN  /\ Cardinality(same) = 1
                    /\ \A r \in same : t[r].goals = score.score.goals

\* fixture F re-ingested with the same score id and other goals
C7_Witness ==
    /\ IsFixtureCall
    /\ last.err = "none"
    /\ \E score \in Items(Payload, "scores") :
          /\ "id" \in DOMAIN score
          /\ score.id \in DOMAIN prev.rows["scores"]
          /\ prev.rows["scores"][score.id].fixture_id = Get(Payload, "id")
          /\ prev.rows["scores"][score.id].goals # score.score.goals
          /\ db.rows["scores"][score.id].goals = score.score.goals

-----------------------------------------------------------------------------
(* C8 *)

\* C8: a well-shaped payload ingests without error whichever optional keys are
\* absent or empty; an absent key writes no row into its tables and every present
\* key has its rows written.
C8_PartialPayloadTolerance ==
    (IsFixtureCall /\ WellShaped(Payload)) =>
        /\ last.err = "none"
        /\ \A k \in OptionalKeys :
              IF Has(Payload, k)
              THEN Positions(last.trace, {MainTable[k]}) # {}
              ELSE Positions(last.trace, KeyTables[k]) = {}

-----------------------------------------------------------------------------
(* C2 *)

WriteVerbs == {"REPLACE", "IGNORE", "INSERT"}

\* the tables whose rows are kept under the id the statement names
KeyedTables == Tables \ (HiddenRowidTables \cup {"standings"})

\* the positions of the statements of the last operation that name key k of table
StatementsFor(table, k) ==
    {i \in DOMAIN last.trace :
        /\ last.trace[i].table = table
        /\ last.trace[i].verb \in WriteVerbs
        /\ last.trace[i].row[RowidAlias(table)] = k}

KeysNamed(table) ==
    {last.trace[i].row[RowidAlias(table)] :
        i \in {j \in DOMAIN last.trace :
                 last.trace[j].table = table /\ last.trace[j].verb \in WriteVerbs}} \ {NULL}

TeamStoredAsPassed(team) ==
    /\ team.id \in DOMAIN db.rows["teams"]
    /\ \A col \in TableColumns["teams"] :
          db.rows["teams"][team.id][col] =
              IF col = "placeholder" THEN GetOr(team, col, 0) ELSE Get(team, col)

-----------------------------------------------------------------------------
(* C9 *)

IsSquadCall == last.op = "insert_or_update_team_squad"

\* the rows of the store's team_squad table for the triple
SquadRows(store, team_id, season_id, player_id) ==
    {r \in DOMAIN store.rows["team_squad"] :
        /\ store.rows["team_squad"][r].team_id = team_id
        /\ store.rows["team_squad"][r].season_id = season_id
        /\ store.rows["team_squad"][r].player_id = player_id}

\* the players the squad list names
SquadPlayers(squad) ==
    {squad[i].player.id : i \in {j \in DOMAIN squad : Has(squad[j], "player")}}

\* C9: after insert_or_update_team_squad(team, season, squad) there is exactly one
\* team_squad row for (team, season, player) for every player of the squad, holding
\* the jersey number of the player's last item, whatever the triple held before; the
\* rows of the other triples are the rows that were there before.
C9_TeamSquadUpsert ==
    (IsSquadCall /\ last.err = "none") =>
        LET squad == last.arg.squad_data.list
            team_id == last.arg.team_id
            season_id == last.arg.season_id
            t == db.rows["team_squad"]
            Other(row) == ~(/\ row.team_id = team_id
                            /\ row.season_id = season_id
                            /\ row.player_id \in SquadPlayers(squad))
        IN  /\ \A i \in DOMAIN squad :
                  Has(squad[i], "player") =>
                      LET rows == SquadRows(db, team_id, season_id, squad[i].player.id)
                          final == MaxOf({j \in DOMAIN squad :
                                            /\ Has(squad[j], "player")
                                            /\ squad[j].player.id = squad[i].player.id})
                      IN  /\ Cardinality(rows) = 1
                          /\ \A r \in rows :
                                t[r].jersey_number = Get(squad[final], "jersey_number")
            /\ \A row \in Range(t) \cup Range(prev.rows["team_squad"]) :
                  Other(row) =>
                      Copies(db, "team_squad", row) = Copies(prev, "team_squad", row)

\* the triple held another jersey number, and another triple has a row
C9_Witness ==
    /\ IsSquadCall
    /\ last.err = "none"
    /\ \E item \in Range(last.arg.squad_data.list) :
          /\ Has(item, "player")
          /\ \E r \in SquadRows(prev, last.arg.team_id, last.arg.season_id, item.player.id) :
                prev.rows["team_squad"][r].jersey_number # Get(item, "jersey_number")
          /\ \E q \in PlayerIds \ SquadPlayers(last.arg.squad_data.list) :
                /\ SquadRows(prev, last.arg.team_id, last.arg.season_id, q) # {}
                /\ SquadRows(db, last.arg.team_id, last.arg.season_id, q) # {}

-----------------------------------------------------------------------------
(* C4 *)

IsBatchCall == last.op = "insert_or_update_fixtures"

\* the fixture with its score rows is in the database file
Ingested(fixture) ==
    /\ fixture.id \in DOMAIN disk.rows["fixtures"]
    /\ \A score \in Items(fixture, "scores") :
          /\ score.id \in DOMAIN disk.rows["scores"]
          /\ disk.rows["scores"][score.id].fixture_id = fixture.id

\* C4: a batch with one fixture whose statistics list is malformed does not raise;
\* every other fixture of the batch, before and after that one, is ingested; and the
\* call returns a summary (with the one failure) rather than nothing.
C4_BatchFaultIsolation ==
    LET batch == last.arg.fixtures.list
        bad == {i \in DOMAIN batch : ~WellShaped(batch[i])}
    IN  (IsBatchCall /\ Cardinality(bad) = 1) =>
            /\ last.err = "none"
            /\ \A i \in (DOMAIN batch) \ bad : Ingested(batch[i])
            /\ last.ret # NULL

-----------------------------------------------------------------------------
(* C10 *)

\* C10: get_last_update_time(e) returns the timestamp of the most recent
\* set_last_update_time(e, T), and None when there was none; the value a
\* set_last_update_time(e, T) stored is T; there is one metadata row per key.
C10_WatermarkRoundTrip ==
    /\ last.op = "get_last_update_time" =>
          last.ret = IF lastSet[last.arg.entity_type] = <<>> THEN NULL
                     ELSE lastSet[last.arg.entity_type][Len(lastSet[last.arg.entity_type])]
    /\ (last.op = "set_last_update_time" /\ last.arg.timestamp # NULL) =>
          GetLastUpdateTime(db, last.arg.entity_type) = last.arg.timestamp
    /\ \A e \in EntityTypes :
          Cardinality({r \in DOMAIN db.rows["metadata"] :
                         db.rows["metadata"][r].key = WatermarkKey(e)}) <= 1

\* two sets of one entity type with different timestamps, another entity type set
\* in between or not, then the get
C10_Witness ==
    /\ last.op = "get_last_update_time"
    /\ Len(lastSet[last.arg.entity_type]) = 2
    /\ lastSet[last.arg.entity_type][1] # lastSet[last.arg.entity_type][2]
    /\ last.ret = lastSet[last.arg.entity_type][2]

-----------------------------------------------------------------------------
(* C11 *)

\* the tables whose rows belong to one fixture
DependentTables ==
    {"fixture_participants", "scores", "events", "fixture_team_stats",
     "fixture_sidelines", "weather_reports"}

\* the keys of a payload whose items are records with an id of their own
RecordKeys == {"scores", "events", "statistics", "sidelined"}

\* C11: an upsert whose record lacks its id fails and writes no row for the record:
\* a continent without id, a fixture payload without id, and a score, event,
\* statistic or sidelined record without id inside a payload.
C11_MissingIdentityFails ==
    /\ last.op = "insert_or_update_continents" =>
          \A continent \in Range(last.arg.continents.list) :
              "id" \notin DOMAIN continent =>
                  /\ last.err # "none"
                  /\ \A i \in Positions(last.trace, {"continents"}) :
                        last.trace[i].row.name # Get(continent, "name")
    /\ IsFixtureCall =>
          /\ "id" \notin DOMAIN Payload =>
                /\ last.err # "none"
                /\ Positions(last.trace, {"fixtures"}) = {}
          /\ \A k \in RecordKeys : \A item \in Items(Payload, k) :
                (IsDict(item) /\ "id" \notin DOMAIN item) =>
                    /\ last.err # "none"
                    /\ Positions(last.trace, {MainTable[k]}) = {}

-----------------------------------------------------------------------------
(* C12 *)

\* the columns of a dependent row that reference the fixture and its entities
ForeignKeys ==
    [ fixture_participants |-> {"fixture_id", "team_id"},
      scores |-> {"fixture_id"},
      events |-> {"fixture_id"},
      fixture_team_stats |-> {"fixture_id"},
      fixture_sidelines |-> {"fixture_id"},
      weather_reports |-> {"fixture_id"} ]

\* C12: an ingestion stores no dependent row with a null foreign key, and an
\* ingestion of a payload without fixture id stores no dependent row at all.
C12_DependentsSkipped ==
    IsFixtureCall =>
        /\ \A i \in Positions(last.trace, DependentTables) :
              \A col \in ForeignKeys[last.trace[i].table] :
                  last.trace[i].row[col] # NULL
        /\ "id" \notin DOMAIN Payload => Positions(last.trace, DependentTables) = {}

-----------------------------------------------------------------------------
(* C13 *)

Upserters ==
    {"insert_or_update_standings", "insert_or_update_odds",
     "insert_or_update_top_performers", "insert_or_update_bookmakers",
     "insert_or_update_markets", "insert_or_update_predictions"}

\* the statements of the last call, run again with the same input on store
Again(store) ==
    LET a == last.arg IN
    CASE last.op = "insert_or_update_standings" ->
            StandingsStatements(store, a.season_id, a.standings)
      [] last.op = "insert_or_update_odds" ->
            OddsStatements(store, a.fixture_id, a.odds_data)
      [] last.op = "insert_or_update_top_performers" ->
            TopPerformersStatements(store, a.season_id, a.category, a.performers)
      [] last.op = "insert_or_update_bookmakers" ->
            BookmakersStatements(store, a.bookmakers)
      [] last.op = "insert_or_update_markets" ->
            MarketsStatements(store, a.markets)
      [] last.op = "insert_or_update_predictions" ->
            PredictionsStatements(store, a.fixture_id, a.predictions)
      [] OTHER -> Begin(store)

\* the rows of the table without their surrogate ids, each with its number of copies
Natural(store, table) ==
    LET t == store.rows[table]
        Bare(row) == IF table \in AutoIncrementTables THEN Without(row, "id") ELSE row
        bare == {Bare(t[r]) : r \in DOMAIN t}
    IN  [row \in bare |-> Cardinality({r \in DOMAIN t : Bare(t[r]) = row})]

\* C13: every insert_or_update_* operation is idempotent: applying it a second time
\* with the same input leaves every table with the same rows and the same number of
\* rows as applying it once, surrogate autoincrement ids aside.
C13_UpsertersIdempotent ==
    (last.op \in Upserters /\ last.err = "none")
        => \A table \in Tables :
              Natural(Again(db).db, table) = Natural(db, table)

-----------------------------------------------------------------------------
(* C14 *)

\* the primary keys present in the table
Keys(store, table) ==
    LET t == store.rows[table] IN
    IF table \in HiddenRowidTables
    THEN {[col \in CompositeKey[table] |-> t[r][col]] : r \in DOMAIN t}
    ELSE DOMAIN t

\* the rows of the table the last operation removed
Removed(table) ==
    {prev.rows[table][r] : r \in (DOMAIN prev.rows[table]) \ DOMAIN db.rows[table]}

\* C14: rows are never deleted except standings and odds: over any sequence of
\* ingestion operations the primary keys of every other table only grow, in the
\* tables build_fixtures.py keeps too; standings keys are removed only by
\* insert_or_update_standings, for its season, and odds keys only by
\* insert_or_update_odds, for its fixture.
C14_KeysOnlyGrow ==
    /\ \A table \in Tables \ {"standings", "odds"} :
          Keys(prev, table) \subseteq Keys(db, table)
    /\ DOMAIN prevBuilt.leagues \subseteq DOMAIN built.leagues
    /\ DOMAIN prevBuilt.fixtures \subseteq DOMAIN built.fixtures
    /\ \A row \in Removed("standings") :
          /\ last.op = "insert_or_update_standings"
          /\ row.season_id = last.arg.season_id
    /\ \A row \in Removed("odds") :
          /\ last.op = "insert_or_update_odds"
          /\ row.fixture_id = last.arg.fixture_id

-----------------------------------------------------------------------------
(* C15 *)

\* the rowids of the rows of the table whose column col holds value
RowsWith(store, table, col, value) ==
    {r \in DOMAIN store.rows[table] : store.rows[table][r][col] = value}

\* the rows of the table whose column col holds another value are the same rows, under
\* the same ids, before and after the last call
OthersUnchanged(table, col, value) ==
    LET before == (DOMAIN prev.rows[table]) \ RowsWith(prev, table, col, value)
        after == (DOMAIN db.rows[table]) \ RowsWith(db, table, col, value)
    IN  /\ before = after
        /\ \A r \in before : db.rows[table][r] = prev.rows[table][r]

\* the rows under the ids `now` are, ids aside, the rows `expected` (a sequence), one
\* row each
OneRowEach(table, now, expected) ==
    /\ Cardinality(now) = Len(expected)
    /\ \A i \in DOMAIN expected :
          Cardinality({r \in now : Without(db.rows[table][r], "id")
                                      = Without(expected[i], "id")})
             = Cardinality({j \in DOMAIN expected : Without(expected[j], "id")
                                                       = Without(expected[i], "id")})

IsStandingsCall == last.op = "insert_or_update_standings" /\ last.err = "none"

\* C15: after insert_or_update_standings(s, L) has returned, the standings rows of
\* season s are one row per element of L, in number len(L), none of them a row that
\* was there before the call, and the standings rows of every other season are
\* unchanged.
C15_StandingsReloaded ==
    IsStandingsCall =>
        LET s == last.arg.season_id
            L == last.arg.standings.list
            now == RowsWith(db, "standings", "season_id", s)
        IN  /\ OneRowEach("standings", now, [i \in DOMAIN L |-> StandingRow(s, L[i])])
            /\ now \cap DOMAIN prev.rows["standings"] = {}
            /\ OthersUnchanged("standings", "season_id", s)

\* a reload of a season that had standings, next to another season that has some
C15_Witness ==
    /\ IsStandingsCall
    /\ Len(last.arg.standings.list) = 2
    /\ RowsWith(prev, "standings", "season_id", last.arg.season_id) # {}
    /\ (DOMAIN prev.rows["standings"])
          \ RowsWith(prev, "standings", "season_id", last.arg.season_id) # {}

-----------------------------------------------------------------------------
(* C16 *)

IsOddsCall == last.op = "insert_or_update_odds" /\ last.err = "none"

\* the odds rows of the entries of D, one per outcome of each entry, in order
OddsRowsOf(f, D) ==
    LET flat[i \in 0..Len(D)] ==
            IF i = 0 THEN <<>>
            ELSE LET outcomes == GetOr(D[i], "outcomes", PyList(<<>>)).list IN
                 flat[i - 1] \o [j \in DOMAIN outcomes |-> OddsRow(f, D[i], outcomes[j])]
    IN  flat[Len(D)]

\* C16: after insert_or_update_odds(f, D) has returned, the odds rows of fixture f are
\* one row per (entry of D, outcome of that entry), none of them a row that was there
\* before the call, and the odds rows of every other fixture are unchanged.
C16_OddsReloaded ==
    IsOddsCall =>
        LET f == last.arg.fixture_id
            now == RowsWith(db, "odds", "fixture_id", f)
        IN  /\ OneRowEach("odds", now, OddsRowsOf(f, last.arg.odds_data.list))
            /\ now \cap DOMAIN prev.rows["odds"] = {}
            /\ OthersUnchanged("odds", "fixture_id", f)

\* a reload of a fixture that had odds, next to another fixture that has some
C16_Witness ==
    /\ IsOddsCall
    /\ Len(OddsRowsOf(last.arg.fixture_id, last.arg.odds_data.list)) = 3
    /\ RowsWith(prev, "odds", "fixture_id", last.arg.fixture_id) # {}
    /\ (DOMAIN prev.rows["odds"])
          \ RowsWith(prev, "odds", "fixture_id", last.arg.fixture_id) # {}

-----------------------------------------------------------------------------
(* C17 *)

\* the optional keys in the order insert_or_update_fixture handles them
StepOrder ==
    <<"league", "venue", "state", "participants", "scores", "events", "statistics",
      "sidelined", "weatherreport">>

SequenceKeys == {"participants", "scores", "events", "statistics", "sidelined"}

\* the key is present and its value is not what the step expects: a sequence of
\* mappings for the sequence keys, a mapping for the others
WrongShape(d, k) ==
    /\ k \in DOMAIN d
    /\ IF k \in SequenceKeys
       THEN ~(IsList(d[k]) /\ \A x \in Items(d, k) : IsDict(x))
       ELSE ~IsDict(d[k])

\* the call stored no row of a step after step k
NothingAfter(k) ==
    \A j \in DOMAIN StepOrder :
        k < j => Positions(last.trace, KeyTables[StepOrder[j]]) = {}

\* C17: when a sub-mapping of the payload is present with the wrong shape at step k
\* (scores or statistics that is not a sequence of mappings), the call raises and
\* stores no row of a step after k, such as sidelines or weather_reports.
C17_FailFastPerFixture ==
    IsFixtureCall =>
        \A k \in DOMAIN StepOrder :
            WrongShape(Payload, StepOrder[k]) => last.err # "none" /\ NothingAfter(k)

-----------------------------------------------------------------------------
(* C18 *)

\* the batch of the last call, and the number of its fixtures that were ingested
\* before the call returned or raised
Batch == last.arg.fixtures.list

Done == last.arg.done

\* the store after the first n fixtures of the batch, ingested one after the other
\* starting from store
AfterFirst(store, n) ==
    LET after[i \in 0..n] ==
            IF i = 0 THEN store ELSE FixtureStatements(after[i - 1], Batch[i]).db
    IN  after[n]

\* C18: a failure while ingesting the k-th fixture of a batch leaves the rows of
\* fixtures 1..k-1 committed and unchanged: the database file holds what the
\* ingestion of those fixtures left, as each was committed before the next started.
C18_EarlierFixturesCommitted ==
    (IsBatchCall /\ last.err # "none") =>
        /\ Done < Len(Batch)
        /\ \A i \in 1..Done : Ingested(Batch[i])
        /\ disk = IF Done = 0 THEN prevDisk ELSE AfterFirst(prev, Done)

\* a batch that failed at its third fixture
C18_Witness ==
    /\ IsBatchCall
    /\ last.err # "none"
    /\ Done = 2
    /\ disk # prevDisk
    /\ db # disk

-----------------------------------------------------------------------------
(* C19 *)

StorageErrors == {"IntegrityError", "OperationalError"}

\* the payload holds an event type without a name: its INSERT violates NOT NULL
Rejected(fixture) ==
    \E event \in Items(fixture, "events") : Has(event, "type") /\ ~Has(event.type, "name")

\* the fixtures the call stored a fixtures row of
Processed ==
    {last.trace[i].rowid : i \in Positions(last.trace, {"fixtures"})}

\* C19: a storage error is fatal for the batch and reaches the caller: when execute
\* raises during insert_or_update_fixtures (here on the k-th fixture, the first one
\* that holds a row the store rejects, every fixture before it being well shaped),
\* the call raises that error and no fixture after the k-th is processed.
C19_StorageErrorFatal ==
    IsBatchCall =>
        \A k \in DOMAIN Batch :
            (Rejected(Batch[k]) /\ \A i \in 1..(k - 1) : WellShaped(Batch[i]) /\ ~Rejected(Batch[i]))
                => /\ last.err \in StorageErrors
                   /\ Done = k - 1
                   /\ Processed = {Batch[i].id : i \in 1..k}

\* a rejected write in the second fixture of a batch of three
C19_Witness ==
    /\ IsBatchCall
    /\ Len(Batch) = 3
    /\ Rejected(Batch[2])
    /\ last.err \in StorageErrors

-----------------------------------------------------------------------------
(* C20 *)

\* C20: at most one weather report per fixture: after any sequence of fixture
\* ingestions the weather_reports table holds at most one row for each fixture_id,
\* also when successive payloads of a fixture carry weather reports with different
\* ids.
C20_OneWeatherReportPerFixture ==
    \A f \in FixtureIds :
        Cardinality(RowsWith(db, "weather_reports", "fixture_id", f)) <= 1

-----------------------------------------------------------------------------
(* C21 *)

\* the (fixture, score type, participant) of a scores row or of a score record
Triple(score) ==
    <<Get(score, "fixture_id"), Get(score, "type_id"), Get(score, "participant_id")>>

\* C21: scores are kept one row per (fixture, score type, participant): after any
\* sequence of fixture ingestions the scores table holds at most one row for each
\* triple, and a row for every triple of the payload the last ingestion stored.
C21_OneScorePerTriple ==
    LET scores == db.rows["scores"] IN
    /\ \A r1, r2 \in DOMAIN scores : Triple(scores[r1]) = Triple(scores[r2]) => r1 = r2
    /\ (IsFixtureCall /\ last.err = "none") =>
          \A score \in Items(Payload, "scores") :
              \E r \in DOMAIN scores : Triple(scores[r]) = Triple(score)

-----------------------------------------------------------------------------
(* C22 *)

\* C22: transient fetch errors are retried and never surfaced: an HTTP failure or a
\* rate-limit (429) response met by make_request, fetch_paginated_data or fetch_all
\* does not propagate as an exception to the code that calls the fetch.
C22_TransientErrorsRetried ==
    /\ wire.raised = "none"
    /\ paged.pc # "raised"
    /\ fetched.pc # "raised"

-----------------------------------------------------------------------------
(* C23 *)

\* the data items of pages 1..n of the server, in page order
Concatenation(server, n) ==
    LET flat[p \in 0..n] == IF p = 0 THEN <<>> ELSE flat[p - 1] \o server.pages[p]
    IN  flat[n]

\* C23: for a server exposing total_pages = n pages, fetch_paginated_data requests
\* the pages 1..n in increasing order, each exactly once, and returns the
\* concatenation of their data items in page order: no page skipped, none repeated.
C23_AllPagesInOrder ==
    paged.pc \notin {"idle", "loop"} =>
        LET n == paged.server.total_pages IN
        /\ paged.pc = "returned"
        /\ paged.requested = [p \in 1..n |-> p]
        /\ paged.ret = PyList(Concatenation(paged.server, n))

-----------------------------------------------------------------------------
(* C24 *)

\* the payload cut down to its id and the keys handled before key k
Before(d, k) ==
    LET earlier == {StepOrder[i] : i \in {j \in DOMAIN StepOrder :
                        \E m \in DOMAIN StepOrder : StepOrder[m] = k /\ j < m}}
    IN  [x \in (DOMAIN d) \cap (earlier \cup {"id"}) |-> d[x]]

\* the last call came as far as the step of key k
Reached(k) == FixtureStatements(prev, Before(Payload, k)).err = "none"

\* the call wrote row `first` of table t1 and, later, row `then` of table t2
WrittenBefore(t1, first, t2, then) ==
    \E i, j \in DOMAIN last.trace :
        /\ i < j
        /\ last.trace[i].table = t1 /\ last.trace[i].rowid = first
        /\ last.trace[i].effect # "ignored"
        /\ last.trace[j].table = t2 /\ last.trace[j].rowid = then
        /\ last.trace[j].effect # "ignored"

EventSubTables == [type |-> "event_types", period |-> "periods", player |-> "players"]

\* C24: event sub-records precede the event: in every ingestion that comes to the
\* events of a well-shaped payload, the embedded event type, period and player of
\* every event are written, and written before the events row of that event.
C24_EventSubRecordsFirst ==
    (IsFixtureCall /\ WellShaped(Payload) /\ Reached("events")) =>
        \A event \in Items(Payload, "events") : \A k \in DOMAIN EventSubTables :
            (Has(event, k) /\ "id" \in DOMAIN event /\ "id" \in DOMAIN event[k]) =>
                WrittenBefore(EventSubTables[k], event[k].id, "events", event.id)

-----------------------------------------------------------------------------
(* C25 *)

\* C25: sideline sub-records precede their dependents: for every sidelined entry of a
\* well-shaped payload whose ingestion comes to it, the sideline type and player rows
\* are written before the sidelines row, and the sidelines row before the
\* fixture_sidelines row that references it.
C25_SidelineSubRecordsFirst ==
    (IsFixtureCall /\ WellShaped(Payload) /\ Reached("sidelined")) =>
        \A sidelined \in Items(Payload, "sidelined") :
            Has(sidelined, "sideline") =>
                LET sideline == sidelined.sideline IN
                /\ Has(sideline, "type") =>
                      WrittenBefore("sideline_types", sideline.type.id,
                                    "sidelines", sideline.id)
                /\ Has(sideline, "player") =>
                      WrittenBefore("players", sideline.player.id,
                                    "sidelines", sideline.id)
                /\ WrittenBefore("sidelines", sideline.id,
                                 "fixture_sidelines", sidelined.id)

-----------------------------------------------------------------------------
(* C26 *)

\* the foreign keys of the rows of an ingestion: table -> column -> referenced table
References ==
    [ fixtures |-> [league_id |-> "leagues", venue_id |-> "venues",
                    state_id |-> "states"],
      scores |-> [participant_id |-> "teams"],
      events |-> [type_id |-> "event_types", period_id |-> "periods",
                  player_id |-> "players"],
      fixture_team_stats |-> [stat_type_id |-> "stat_types", team_id |-> "teams"],
      fixture_sidelines |-> [sideline_id |-> "sidelines"],
      sidelines |-> [player_id |-> "players", type_id |-> "sideline_types"] ]

\* C26: no orphan rows after an uninterrupted ingestion: after insert_or_update_fixture
\* has returned, every non-null foreign key of every row it wrote refers to a stored
\* row, also when the payload carries the id field without the embedded sub-object.
C26_NoOrphans ==
    (IsFixtureCall /\ last.err = "none") =>
        \A i \in Positions(last.trace, DOMAIN References) :
            LET w == last.trace[i] IN
            \A col \in DOMAIN References[w.table] :
                w.row[col] # NULL => w.row[col] \in DOMAIN db.rows[References[w.table][col]]

-----------------------------------------------------------------------------
(* C29 *)

\* C29: schema agreement: every column named by an INSERT that
\* insert_or_update_fixture issues for leagues, venues, teams and players is a column
\* of that table as create_tables creates it, so that ingesting a fixture that embeds
\* a league, a venue, participants or an event or sideline player never fails for a
\* schema reason.
C29_SchemaAgreement ==
    IsFixtureCall =>
        /\ DOMAIN LeagueRow(EmptyDict) \subseteq TableColumns["leagues"]
        /\ DOMAIN VenueRow(EmptyDict) \subseteq TableColumns["venues"]
        /\ DOMAIN ParticipantTeamRow(EmptyDict) \subseteq TableColumns["teams"]
        /\ DOMAIN EmbeddedPlayerRow(EmptyDict) \subseteq TableColumns["players"]
        /\ last.err # "OperationalError"

-----------------------------------------------------------------------------
(* C30 *)

\* the tables other than metadata
OtherTables == DOMAIN db.rows \ {"metadata"}

\* C30: get_last_update_time(e) on an entity type that was never set returns
\* None; set_last_update_time(e1, T) leaves the watermark of every other entity
\* type and the rows of every table other than metadata as they were, as the
\* store's connection reads them
C30_WatermarksIndependent ==
    /\ (last.op = "get_last_update_time" /\ lastSet[last.arg.entity_type] = <<>>) =>
          last.ret = NULL
    /\ last.op = "set_last_update_time" =>
          /\ last.err = "none"
          /\ \A e2 \in EntityTypes \ {last.arg.entity_type} :
                GetLastUpdateTime(db, e2) = GetLastUpdateTime(prev, e2)
          /\ \A t \in OtherTables : db.rows[t] = prev.rows[t]

\* a watermark is set while another entity type has a different one and a fixture
\* is stored
C30_Witness ==
    /\ last.op = "set_last_update_time"
    /\ last.arg.timestamp # NULL
    /\ \E e2 \in EntityTypes \ {last.arg.entity_type} :
          /\ lastSet[e2] # <<>>
          /\ GetLastUpdateTime(db, e2) # last.arg.timestamp
          /\ GetLastUpdateTime(db, e2) # NULL
    /\ db.rows["fixtures"] # <<>>
    /\ db.rows["scores"] # <<>>

-----------------------------------------------------------------------------
(* C28 *)

\* request_count was below rate_limit when the last request was sent
C28_CountBelowLimitAtSend ==
    wire.countAtSend # NULL => wire.countAtSend < api.rate_limit

\* request_count was 0 after request_reset_time was last assigned
C28_CountZeroAtReset == wire.countAtReset = 0

\* C28: whenever make_request sends a request request_count is below rate_limit,
\* so that no more than rate_limit requests are sent between two assignments of
\* request_reset_time, and request_count is 0 when the window is reset
C28_RateLimitInvariant ==
    /\ C28_CountBelowLimitAtSend
    /\ wire.sent <= api.rate_limit
    /\ C28_CountZeroAtReset

-----------------------------------------------------------------------------
(* C27 *)

\* the items of pages 1..k of a feed, in page order
Gathered(feed, k) ==
    LET f[i \in 0..k] == IF i = 0 THEN <<>> ELSE f[i - 1] \o AnswerOf(feed, i).data
    IN  f[k]

\* the pages taken so far are 1, 2, ... once each, items holds their data in that
\* order and the page counter stands behind the last one taken, whatever number of
\* 429 answers came in between; under a throttle that never ends nothing is
\* taken and fetch_all does not end
PagesInOrder ==
    fetched.pc # "idle" =>
       /\ fetched.answered = [i \in 1..Len(fetched.answered) |-> i]
       /\ fetched.items = Gathered(fetched.feed, Len(fetched.answered))
       /\ fetched.pc = "loop" => fetched.page = Len(fetched.answered) + 1
       /\ fetched.pc = "returned" =>
             /\ fetched.page = Len(fetched.answered)
             /\ fetched.ret = PyList(fetched.items)
             /\ \A p \in 1..(fetched.page - 1) :
                   /\ AnswerOf(fetched.feed, p).data # <<>>
                   /\ AnswerOf(fetched.feed, p).has_more
             /\ \/ AnswerOf(fetched.feed, fetched.page).data = <<>>
                \/ ~AnswerOf(fetched.feed, fetched.page).has_more
       /\ fetched.feed.throttle = Forever =>
             /\ fetched.pc = "loop"
             /\ fetched.items = <<>>
             /\ fetched.page = 1

\* C27: fetch_all answers a 429 by asking for the same page again: the 429 adds
\* no item and leaves the page counter, so the list returned has every page once
\* and in order; and fetch_all ends when the 429 answers end and a page is empty
\* or without has_more, while under 429 answers without end it never does
C27_ThrottledFetchTerminates ==
    /\ []PagesInOrder
    /\ (fetched.pc = "loop" /\ fetched.feed.throttle # Forever) ~> (fetched.pc # "loop")

\* fetch_all returned the items of two pages or more after a 429 answer
C27_Witness ==
    /\ fetched.pc = "returned"
    /\ fetched.throttled
    /\ Len(fetched.answered) >= 2
    /\ Len(fetched.items) >= 4

====
